---- MODULE Spec2Model ----
(***************************************************************************)
(* A model of the order execution engine of the ETF trading simulator:    *)
(* TradingSimulator (src/src/etf_trading/simulator.py) with the Index,    *)
(* Asset and Order records of src/src/etf_trading/models.py.              *)
(*                                                                         *)
(* Python floats are modelled as exact rationals <<n, d>> (d > 0, lowest   *)
(* terms); rounding of the binary floating point is not modelled.  Order   *)
(* objects live in `heap`, indexed by an object id given in allocation     *)
(* order; the ledger (`orders`) and the queue (`order_queue`) hold object  *)
(* ids, as the Python dict and deque hold references.  datetime.now() is   *)
(* the integer clock `now`, advanced by Tick.  The timestamp fields that    *)
(* no operation ever reads (Order.timestamp, Index.creation_time) are not *)
(* part of the state.                                                      *)
(***************************************************************************)
EXTENDS Integers, Sequences, FiniteSets, TLC

\* ---------------------------------------------------------------- bounds
\* Number of Order objects the model allocates (one per buy call).
MaxOrders == 2
\* self.rate_limit_window (simulator.py:18, default 10 s), scaled down.
rate_limit_window == 1
\* self.rate_limit_orders (simulator.py:19, default 100), scaled down.
rate_limit_orders == 1
\* The clock runs from 0 until the first window has expired.
MaxTime == rate_limit_window + 1

\* ------------------------------------------------------------- constants
\* self.min_order_value (simulator.py:20).
min_order_value == 5

\* ------------------------------------------------------------- rationals
RECURSIVE GCD(_, _)
GCD(a, b) == IF b = 0 THEN a ELSE GCD(b, a % b)

Abs(n) == IF n < 0 THEN -n ELSE n

\* The rational n/d in lowest terms with a positive denominator.
Norm(n, d) ==
    LET g == GCD(Abs(n), Abs(d))
        s == IF d < 0 THEN -1 ELSE 1
    IN  <<(s * n) \div g, (s * d) \div g>>

R(n) == <<n, 1>>
RAdd(x, y) == Norm(x[1] * y[2] + y[1] * x[2], x[2] * y[2])
RSub(x, y) == Norm(x[1] * y[2] - y[1] * x[2], x[2] * y[2])
\* x * y, reduced crosswise before multiplying to keep the integers small.
RMul(x, y) ==
    IF x[1] = 0 \/ y[1] = 0 THEN <<0, 1>>
    ELSE LET g1 == GCD(Abs(x[1]), y[2])
             g2 == GCD(Abs(y[1]), x[2])
         IN  <<(x[1] \div g1) * (y[1] \div g2), (x[2] \div g2) * (y[2] \div g1)>>
\* x / y, for y # 0 (Python raises ZeroDivisionError otherwise; callers test).
RDiv(x, y) == Norm(x[1] * y[2], x[2] * y[1])
RAbs(x) == <<Abs(x[1]), x[2]>>
RLt(x, y) == x[1] * y[2] < y[1] * x[2]
RLe(x, y) == x[1] * y[2] <= y[1] * x[2]
RMin(x, y) == IF RLt(y, x) THEN y ELSE x
RZero == R(0)
ROne == R(1)

\* ----------------------------------------------------------------- state
VARIABLES
    now,                    \* datetime.now()
    indices,                \* self.indices: index_id -> Index
    liquidity_info,         \* self.liquidity_info: index_id -> symbol -> info
    retainer,               \* self.retainer: index_id -> float
    heap,                   \* the Order objects, in allocation order
    orders,                 \* self.orders: position_id -> Order (object id)
    order_queue,            \* self.order_queue: deque of Order (object ids)
    last_execution_time,    \* self.last_execution_time
    order_count_in_window,  \* self.order_count_in_window
    ret,                    \* the last call: its name, arguments and result
    burst,                  \* statuses returned by the run of buys (quantity > 0)
                            \* made since the window was last empty
    solver,                 \* a call of Solver.determine_fill_strategy: its
                            \* arguments and, once it has returned, its result
    limiter_window,         \* self.rate_limit_window
    queue_manager,          \* the QueueManager (src/src/queue_manager.py)
    threads,                \* the calls of buy in progress, one per thread
    admitted,               \* history: when buy admitted an order, if recorded
    order_book,             \* the OrderBook (src/src/order_book.py)
    rebalance_manager       \* the RebalanceManager (src/src/rebalance.py)

vars == <<now, indices, liquidity_info, retainer, heap, orders, order_queue,
          last_execution_time, order_count_in_window, ret, burst, solver,
          limiter_window, queue_manager, threads, admitted,
          order_book, rebalance_manager>>

\* ---------------------------------------------------------------- inputs
PositionIds == {1, 2}
\* "X" is the index the model creates; "Y" is never created.
IndexIds == {"X", "Y"}

\* The arguments (index_id, quantity, index_price) buy is called with.
BuyCalls == { <<"X", 2, 3>>, <<"Y", 2, 3>>, <<"X", 0, 3>> }

Asset(symbol, qty, p0, p) ==
    [symbol |-> symbol, quantity |-> R(qty),
     price_last_rebalance |-> R(p0), current_price |-> R(p)]

\* The calls create_index(index_id, assets) the model makes.
Creations == {
    <<"X", <<Asset("A", 1, 10, 10), Asset("B", 2, 5, 5)>> >> }

Info(max_fillable, price_impact) ==
    [max_fillable |-> R(max_fillable), price_impact |-> R(price_impact)]

\* The calls set_liquidity_info(index_id, liquidity_info) the model makes.
LiquidityCalls == { <<"X", ("A" :> Info(10, 2))>> }

\* The price dicts update_prices is called with.
PriceDicts == { ("A" :> R(20)) }

\* The weight dicts rebalance is called with.
WeightDicts == { ("A" :> <<1, 2>> @@ "B" :> <<1, 2>>) }

EmptyDict == [k \in {} |-> 0]

\* ----------------------------------------------------------- call record
NoRet ==
    [op |-> "init", position_id |-> 0, index_id |-> "", quantity |-> 0,
     price |-> 0, order |-> 0, status |-> "", success |-> FALSE,
     message |-> "", loss |-> RZero, raised |-> "", executed |-> <<>>,
     total_cost |-> RZero, new_weights |-> EmptyDict, prices |-> EmptyDict]

\* The run of buys is interrupted by another call: a new run can start only
\* from an empty window.
BurstBroken(count) == [open |-> count = 0, statuses |-> <<>>]

\* No call of the solver is in progress.
NoCall == [order |-> <<>>, liquidity_data |-> <<>>, strategy |-> [kind |-> "none"]]

\* No QueueManager has been constructed.
NoQueueManager == <<>>

\* No thread is inside a call.
NoThreads == <<>>

\* No OrderBook and no RebalanceManager have been constructed.
NoOrderBook == <<>>
NoRebalanceManager == <<>>

\* The admissions of buy are not recorded.
NotRecorded == [on |-> FALSE, list |-> <<>>]

Init ==
    /\ now = 0
    /\ indices = EmptyDict
    /\ liquidity_info = EmptyDict
    /\ retainer = EmptyDict
    /\ heap = <<>>
    /\ orders = EmptyDict
    /\ order_queue = <<>>
    /\ last_execution_time = 0
    /\ order_count_in_window = 0
    /\ ret = NoRet
    /\ burst = BurstBroken(0)
    /\ solver = NoCall
    /\ limiter_window = rate_limit_window
    /\ queue_manager = NoQueueManager
    /\ threads = NoThreads
    /\ admitted = NotRecorded
    /\ order_book = NoOrderBook
    /\ rebalance_manager = NoRebalanceManager

\* The clock advances by one, up to limit.
TickUntil(limit) ==
    /\ now < limit
    /\ now' = now + 1
    /\ UNCHANGED <<indices, liquidity_info, retainer, heap, orders, order_queue,
                   last_execution_time, order_count_in_window, ret, burst, solver,
                   limiter_window, queue_manager, threads, admitted,
                   order_book, rebalance_manager>>

\* d with key k set to v (Python: d[k] = v).
Put(d, k, v) == [x \in DOMAIN d \cup {k} |-> IF x = k THEN v ELSE d[x]]

create_index(index_id, assets) ==
    /\ indices' = Put(indices, index_id,
                      [id |-> index_id, assets |-> assets,
                       last_rebalance_time |-> now])
    /\ retainer' = Put(retainer, index_id, RZero)
    /\ ret' = [NoRet EXCEPT !.op = "create_index", !.index_id = index_id]
    /\ burst' = BurstBroken(order_count_in_window)
    /\ UNCHANGED <<now, liquidity_info, heap, orders, order_queue,
                   last_execution_time, order_count_in_window, solver,
                   limiter_window, queue_manager, threads, admitted,
                   order_book, rebalance_manager>>

set_liquidity_info(index_id, info) ==
    /\ liquidity_info' = Put(liquidity_info, index_id, info)
    /\ ret' = [NoRet EXCEPT !.op = "set_liquidity_info", !.index_id = index_id]
    /\ burst' = BurstBroken(order_count_in_window)
    /\ UNCHANGED <<now, indices, retainer, heap, orders, order_queue,
                   last_execution_time, order_count_in_window, solver,
                   limiter_window, queue_manager, threads, admitted,
                   order_book, rebalance_manager>>

\* The loop of update_prices writing the supplied price to
\* price_last_rebalance.
UpdatedAssetsLastPrice(assets, prices) ==
    [k \in DOMAIN assets |->
        IF assets[k].symbol \in DOMAIN prices
        THEN [assets[k] EXCEPT !.price_last_rebalance = prices[assets[k].symbol]]
        ELSE assets[k]]

\* The loop of update_prices (simulator.py:36-38).
UpdatedAssets(assets, prices) ==
    [k \in DOMAIN assets |->
        IF assets[k].symbol \in DOMAIN prices
        THEN [assets[k] EXCEPT !.current_price = prices[assets[k].symbol]]
        ELSE assets[k]]

\* update_prices returning silently when the index is unknown.
update_prices_silent(index_id, prices) ==
    /\ IF index_id \notin DOMAIN indices
       THEN /\ ret' = [NoRet EXCEPT !.op = "update_prices", !.index_id = index_id,
                                    !.prices = prices]
            /\ UNCHANGED indices
       ELSE /\ indices' = [indices EXCEPT ![index_id].assets =
                              UpdatedAssets(indices[index_id].assets, prices)]
            /\ ret' = [NoRet EXCEPT !.op = "update_prices", !.index_id = index_id,
                                    !.prices = prices]
    /\ burst' = BurstBroken(order_count_in_window)
    /\ UNCHANGED <<now, liquidity_info, retainer, heap, orders, order_queue,
                   last_execution_time, order_count_in_window, solver,
                   limiter_window, queue_manager, threads, admitted,
                   order_book, rebalance_manager>>

update_prices(index_id, prices) ==
    /\ IF index_id \notin DOMAIN indices
       THEN /\ ret' = [NoRet EXCEPT !.op = "update_prices", !.index_id = index_id,
                                    !.prices = prices,
                                    !.raised = "ValueError",
                                    !.message = "Index not found"]
            /\ UNCHANGED indices
       ELSE /\ indices' = [indices EXCEPT ![index_id].assets =
                              UpdatedAssets(indices[index_id].assets, prices)]
            /\ ret' = [NoRet EXCEPT !.op = "update_prices", !.index_id = index_id,
                                    !.prices = prices]
    /\ burst' = BurstBroken(order_count_in_window)
    /\ UNCHANGED <<now, liquidity_info, retainer, heap, orders, order_queue,
                   last_execution_time, order_count_in_window, solver,
                   limiter_window, queue_manager, threads, admitted,
                   order_book, rebalance_manager>>

\* ------------------------------------------------------------ rate limit
\* The window is reset when a full window has passed (simulator.py:66, 198).
WindowExpired == now - last_execution_time > limiter_window

\* check_rate_limit with the limit test off by one.
check_rate_limit_off_by_one ==
    LET count == IF WindowExpired THEN 0 ELSE order_count_in_window
        last  == IF WindowExpired THEN now ELSE last_execution_time
    IN  IF count > rate_limit_orders
        THEN [ok |-> FALSE, order_count_in_window |-> count,
              last_execution_time |-> last]
        ELSE [ok |-> TRUE, order_count_in_window |-> count + 1,
              last_execution_time |-> last]

\* _check_rate_limit: the result and the limiter's fields after the call.
check_rate_limit ==
    LET count == IF WindowExpired THEN 0 ELSE order_count_in_window
        last  == IF WindowExpired THEN now ELSE last_execution_time
    IN  IF count >= rate_limit_orders
        THEN [ok |-> FALSE, order_count_in_window |-> count,
              last_execution_time |-> last]
        ELSE [ok |-> TRUE, order_count_in_window |-> count + 1,
              last_execution_time |-> last]

\* ------------------------------------------------------------------- buy
NewOrder(position_id, index_id, quantity, index_price, status) ==
    [position_id |-> position_id, index_id |-> index_id,
     order_type |-> "BUY", quantity |-> R(quantity), price |-> R(index_price),
     status |-> status, filled_quantity |-> RZero, filled_price |-> RZero,
     loss |-> RZero]

\* The quantity test admitting a quantity of zero.
BuyRejectsNegativeOnly(quantity) == quantity < 0

\* The first test of buy (simulator.py:109).
BuyRejectsQuantity(quantity) == quantity <= 0

buy(position_id, index_id, quantity, index_price) ==
    /\ Len(heap) < MaxOrders
    /\ LET obj == Len(heap) + 1
           rl  == check_rate_limit
           status == IF BuyRejectsQuantity(quantity) THEN "REJECTED"
                     ELSE IF ~rl.ok THEN "REJECTED"
                     ELSE "PENDING"
       IN  /\ heap' = Append(heap, NewOrder(position_id, index_id, quantity,
                                            index_price, status))
           /\ orders' = Put(orders, position_id, obj)
           /\ order_queue' = IF status = "PENDING"
                             THEN Append(order_queue, obj) ELSE order_queue
           /\ IF BuyRejectsQuantity(quantity)
              THEN /\ UNCHANGED <<last_execution_time, order_count_in_window>>
                   /\ burst' = BurstBroken(order_count_in_window)
              ELSE /\ last_execution_time' = rl.last_execution_time
                   /\ order_count_in_window' = rl.order_count_in_window
                   /\ burst' =
                        IF WindowExpired
                        THEN [open |-> TRUE, statuses |-> <<status>>]
                        ELSE IF burst.open
                        THEN [burst EXCEPT !.statuses = Append(@, status)]
                        ELSE burst
           /\ ret' = [NoRet EXCEPT !.op = "buy", !.position_id = position_id,
                                   !.index_id = index_id, !.quantity = quantity,
                                   !.price = index_price, !.order = obj,
                                   !.status = status]
           /\ admitted' =
                 IF admitted.on /\ status = "PENDING"
                 THEN [admitted EXCEPT
                          !.list = Append(@, [at |-> now,
                                              reset |-> WindowExpired])]
                 ELSE admitted
    /\ UNCHANGED <<now, indices, liquidity_info, retainer, solver,
                   limiter_window, queue_manager, threads,
                   order_book, rebalance_manager>>

\* ---------------------------------------------------------------- cancel
\* The test of cancel without the CANCELLED status.
CancelRefusesFilledOnly(status) == status = "FILLED"

\* The statuses cancel refuses (simulator.py:170).
CancelRefuses(status) == status \in {"FILLED", "CANCELLED"}

\* The loss with the sign of price - filled_price kept.
cancel_loss_signed(order) ==
    IF order.status = "PARTIALLY_FILLED"
    THEN RMul(order.filled_quantity, RSub(order.price, order.filled_price))
    ELSE RZero

\* The loss cancel reports (simulator.py:176-179).
cancel_loss(order) ==
    IF order.status = "PARTIALLY_FILLED"
    THEN RAbs(RMul(order.filled_quantity, RSub(order.price, order.filled_price)))
    ELSE RZero

cancel(position_id) ==
    /\ IF position_id \notin DOMAIN orders
       THEN /\ ret' = [NoRet EXCEPT !.op = "cancel", !.position_id = position_id,
                                    !.message = "Order not found"]
            /\ UNCHANGED heap
       ELSE LET obj == orders[position_id]
                order == heap[obj]
            IN  IF CancelRefuses(order.status)
                THEN /\ ret' = [NoRet EXCEPT !.op = "cancel",
                                  !.position_id = position_id, !.order = obj,
                                  !.message = "Order already " \o order.status]
                     /\ UNCHANGED heap
                ELSE /\ heap' = [heap EXCEPT ![obj].status = "CANCELLED"]
                     /\ ret' = [NoRet EXCEPT !.op = "cancel",
                                  !.position_id = position_id, !.order = obj,
                                  !.success = TRUE,
                                  !.message = "Order cancelled",
                                  !.loss = cancel_loss(order)]
    /\ burst' = BurstBroken(order_count_in_window)
    /\ UNCHANGED <<now, indices, liquidity_info, retainer, orders, order_queue,
                   last_execution_time, order_count_in_window, solver,
                   limiter_window, queue_manager, threads, admitted,
                   order_book, rebalance_manager>>

\* --------------------------------------------------------- process_queue
\* The sum of price_impact x current_price over the assets of the order's
\* index; 0 for an asset without liquidity info (simulator.py:211-217).
\* Defined for an order whose index exists.
liquidity_impact(order) ==
    LET assets == indices[order.index_id].assets
        info == IF order.index_id \in DOMAIN liquidity_info
                THEN liquidity_info[order.index_id] ELSE EmptyDict
        term(a) == IF a.symbol \in DOMAIN info
                   THEN RMul(info[a.symbol].price_impact, a.current_price)
                   ELSE RZero
        sum[k \in 0..Len(assets)] ==
            IF k = 0 THEN RZero ELSE RAdd(sum[k - 1], term(assets[k]))
    IN  sum[Len(assets)]

\* Where list.sort places x in the sorted list s: behind every element whose
\* key is not greater (the sort is stable).
RECURSIVE InsertSorted(_, _, _)
InsertSorted(s, x, h) ==
    IF s = <<>> THEN <<x>>
    ELSE IF RLt(liquidity_impact(h[x]), liquidity_impact(h[Head(s)]))
         THEN <<x>> \o s
         ELSE <<Head(s)>> \o InsertSorted(Tail(s), x, h)

\* orders_with_impact.sort(key=lambda x: x[0]) (simulator.py:221).
RECURSIVE SortByImpact(_, _)
SortByImpact(s, h) ==
    IF s = <<>> THEN <<>>
    ELSE InsertSorted(SortByImpact(SubSeq(s, 1, Len(s) - 1), h), s[Len(s)], h)

\* _calculate_fillable_amount taking the first constraining asset instead of
\* the most constraining one.
calculate_fillable_amount_first(index_id, quantity) ==
    IF index_id \notin DOMAIN liquidity_info THEN quantity
    ELSE
    LET assets == indices[index_id].assets
        info == liquidity_info[index_id]
        notional(asset) == RMul(RMul(quantity, asset.current_price), asset.quantity)
        binding == {k \in DOMAIN assets :
                      /\ assets[k].symbol \in DOMAIN info
                      /\ RLt(info[assets[k].symbol].max_fillable, notional(assets[k]))}
        first == CHOOSE k \in binding : \A j \in binding : k <= j
    IN  IF binding = {} THEN quantity
        ELSE RMul(quantity, RDiv(info[assets[first].symbol].max_fillable,
                                 notional(assets[first])))

\* _calculate_fillable_amount (simulator.py:84-104).
calculate_fillable_amount(index_id, quantity) ==
    IF index_id \notin DOMAIN liquidity_info THEN quantity
    ELSE
    LET assets == indices[index_id].assets
        info == liquidity_info[index_id]
        min_fill[k \in 0..Len(assets)] ==
            IF k = 0 THEN ROne
            ELSE LET asset == assets[k]
                     asset_notional ==
                         RMul(RMul(quantity, asset.current_price), asset.quantity)
                 IN  IF asset.symbol \notin DOMAIN info THEN min_fill[k - 1]
                     ELSE IF RLt(info[asset.symbol].max_fillable, asset_notional)
                     THEN RMin(min_fill[k - 1],
                               RDiv(info[asset.symbol].max_fillable, asset_notional))
                     ELSE min_fill[k - 1]
    IN  RMul(quantity, min_fill[Len(assets)])

\* The fill threshold lowered to a quarter.
FillStatusQuarter(fill_rate) ==
    IF RLe(<<1, 4>>, fill_rate) THEN "FILLED" ELSE "PARTIALLY_FILLED"

\* The fill threshold of _execute_order (simulator.py:262).
FillStatus(fill_rate) ==
    IF RLe(<<99, 100>>, fill_rate) THEN "FILLED" ELSE "PARTIALLY_FILLED"

\* _execute_order filling at the requested price, without slippage.
execute_order_no_slippage(st, obj) ==
    LET order == st.heap[obj]
    IN  IF order.order_type # "BUY" THEN st
        ELSE IF st.count >= rate_limit_orders
        THEN [st EXCEPT !.heap[obj].status = "REJECTED"]
        ELSE
        LET fillable_quantity ==
                calculate_fillable_amount(order.index_id, order.quantity)
            fill_rate == RDiv(fillable_quantity, order.quantity)
            filled_price == order.price
            loss == RAbs(RMul(fillable_quantity, RSub(order.price, filled_price)))
            filled_value == RMul(fillable_quantity, filled_price)
        IN  [st EXCEPT
               !.heap[obj] = [order EXCEPT
                    !.filled_quantity = fillable_quantity,
                    !.filled_price = filled_price,
                    !.status = FillStatus(fill_rate),
                    !.loss = loss],
               !.retainer[order.index_id] =
                    RAdd(@, RSub(RMul(order.quantity, order.price), filled_value))]

\* _execute_order (simulator.py:245-274) on the state st = [heap, count,
\* retainer] of the running process_queue.
execute_order(st, obj) ==
    LET order == st.heap[obj]
    IN  IF order.order_type # "BUY" THEN st
        ELSE IF st.count >= rate_limit_orders
        THEN [st EXCEPT !.heap[obj].status = "REJECTED"]
        ELSE
        LET fillable_quantity ==
                calculate_fillable_amount(order.index_id, order.quantity)
            fill_rate == RDiv(fillable_quantity, order.quantity)
            filled_price == RMul(order.price, <<1001, 1000>>)
            loss == RAbs(RMul(fillable_quantity, RSub(order.price, filled_price)))
            filled_value == RMul(fillable_quantity, filled_price)
        IN  [st EXCEPT
               !.heap[obj] = [order EXCEPT
                    !.filled_quantity = fillable_quantity,
                    !.filled_price = filled_price,
                    !.status = FillStatus(fill_rate),
                    !.loss = loss],
               !.retainer[order.index_id] =
                    RAdd(@, RSub(RMul(order.quantity, order.price), filled_value))]

\* The loop of process_queue keeping the executed orders among the
\* remaining ones.
RECURSIVE ProcessLoopKeepsExecuted(_, _, _, _)
ProcessLoopKeepsExecuted(sorted, i, available_slots, st) ==
    IF i >= Len(sorted) THEN st
    ELSE LET obj == sorted[i + 1]
         IN  IF i < available_slots
             THEN LET ex == execute_order(st, obj)
                  IN  ProcessLoopKeepsExecuted(sorted, i + 1, available_slots,
                        [ex EXCEPT !.executed = Append(@, obj),
                                   !.remaining = Append(@, obj),
                                   !.heap[obj].status = "PENDING",
                                   !.count = @ + 1])
             ELSE ProcessLoopKeepsExecuted(sorted, i + 1, available_slots,
                        [st EXCEPT !.heap[obj].status = "PENDING",
                                   !.remaining = Append(@, obj)])

\* The loop of process_queue over the sorted orders (simulator.py:227-235),
\* from position i (counted from 0) on.
RECURSIVE ProcessLoop(_, _, _, _)
ProcessLoop(sorted, i, available_slots, st) ==
    IF i >= Len(sorted) THEN st
    ELSE LET obj == sorted[i + 1]
         IN  IF i < available_slots
             THEN LET ex == execute_order(st, obj)
                  IN  ProcessLoop(sorted, i + 1, available_slots,
                        [ex EXCEPT !.executed = Append(@, obj),
                                   !.count = @ + 1])
             ELSE ProcessLoop(sorted, i + 1, available_slots,
                        [st EXCEPT !.heap[obj].status = "PENDING",
                                   !.remaining = Append(@, obj)])

\* The orders process_queue puts back (simulator.py:238-240).
RECURSIVE Requeue(_, _)
Requeue(remaining, h) ==
    IF remaining = <<>> THEN <<>>
    ELSE IF h[Head(remaining)].status \in {"PENDING", "REJECTED"}
         THEN <<Head(remaining)>> \o Requeue(Tail(remaining), h)
         ELSE Requeue(Tail(remaining), h)

\* The slots of a whole window, whatever has been counted in it.
AvailableSlotsWholeWindow == rate_limit_orders

\* The slots process_queue computes (simulator.py:198-202).
AvailableSlots ==
    LET count == IF WindowExpired THEN 0 ELSE order_count_in_window
    IN  IF rate_limit_orders - count > 0 THEN rate_limit_orders - count ELSE 0

process_queue ==
    /\ IF order_queue = <<>>
       THEN /\ ret' = [NoRet EXCEPT !.op = "process_queue"]
            /\ UNCHANGED <<heap, order_queue, retainer, last_execution_time,
                           order_count_in_window>>
       ELSE
       LET count == IF WindowExpired THEN 0 ELSE order_count_in_window
           last  == IF WindowExpired THEN now ELSE last_execution_time
           available_slots == AvailableSlots
           all_orders == order_queue
       IN  IF \E k \in 1..Len(all_orders) :
                 heap[all_orders[k]].index_id \notin DOMAIN indices
           THEN \* self.indices[order.index_id] raises KeyError; the queue
                \* has been cleared (simulator.py:206, 211)
                /\ order_queue' = <<>>
                /\ last_execution_time' = last
                /\ order_count_in_window' = count
                /\ ret' = [NoRet EXCEPT !.op = "process_queue",
                                        !.raised = "KeyError"]
                /\ UNCHANGED <<heap, retainer>>
           ELSE
           LET sorted == SortByImpact(all_orders, heap)
               done == ProcessLoop(sorted, 0, available_slots,
                          [heap |-> heap, count |-> count,
                           retainer |-> retainer, executed |-> <<>>,
                           remaining |-> <<>>])
           IN  /\ heap' = done.heap
               /\ retainer' = done.retainer
               /\ order_count_in_window' = done.count
               /\ last_execution_time' = last
               /\ order_queue' = Requeue(done.remaining, done.heap)
               /\ ret' = [NoRet EXCEPT !.op = "process_queue",
                                       !.executed = done.executed]
    /\ burst' = BurstBroken(order_count_in_window')
    /\ UNCHANGED <<now, indices, liquidity_info, orders, solver,
                   limiter_window, queue_manager, threads, admitted,
                   order_book, rebalance_manager>>

\* ------------------------------------------------------------- rebalance
\* Index.calculate_nav (models.py:34-36).
calculate_nav(index) ==
    LET sum[k \in 0..Len(index.assets)] ==
            IF k = 0 THEN RZero
            ELSE RAdd(sum[k - 1], RMul(index.assets[k].quantity,
                                       index.assets[k].current_price))
    IN  sum[Len(index.assets)]

\* Index.calculate_rebalance_cost (models.py:38-51).
calculate_rebalance_cost(index, new_weights) ==
    LET current_nav == calculate_nav(index)
        cost(asset) ==
            LET new_weight == IF asset.symbol \in DOMAIN new_weights
                              THEN new_weights[asset.symbol] ELSE RZero
                target_value == RMul(current_nav, new_weight)
                current_value == RMul(asset.quantity, asset.current_price)
            IN  RMul(RAbs(RSub(target_value, current_value)), <<1, 1000>>)
        total[k \in 0..Len(index.assets)] ==
            IF k = 0 THEN RZero ELSE RAdd(total[k - 1], cost(index.assets[k]))
    IN  total[Len(index.assets)]

\* The update loop giving every asset a weight, 0 when new_weights has none.
RebalancedAssetsAll(assets, new_weights, nav, n) ==
    [k \in DOMAIN assets |->
        IF k <= n
        THEN [assets[k] EXCEPT
                !.quantity =
                    IF assets[k].symbol \in DOMAIN new_weights
                    THEN RDiv(RMul(nav, new_weights[assets[k].symbol]),
                              assets[k].current_price)
                    ELSE RZero,
                !.price_last_rebalance = assets[k].current_price]
        ELSE assets[k]]

\* The update loop dividing by the price of the last rebalance.
RebalancedAssetsAtLastPrice(assets, new_weights, nav, n) ==
    [k \in DOMAIN assets |->
        IF k <= n /\ assets[k].symbol \in DOMAIN new_weights
        THEN [assets[k] EXCEPT
                !.quantity = RDiv(RMul(nav, new_weights[assets[k].symbol]),
                                  assets[k].price_last_rebalance),
                !.price_last_rebalance = assets[k].current_price]
        ELSE assets[k]]

\* The assets after the update loop of rebalance has handled the first n of
\* them (simulator.py:291-296).
RebalancedAssets(assets, new_weights, nav, n) ==
    [k \in DOMAIN assets |->
        IF k <= n /\ assets[k].symbol \in DOMAIN new_weights
        THEN [assets[k] EXCEPT
                !.quantity = RDiv(RMul(nav, new_weights[assets[k].symbol]),
                                  assets[k].current_price),
                !.price_last_rebalance = assets[k].current_price]
        ELSE assets[k]]

rebalance(index_id, new_weights) ==
    /\ IF index_id \notin DOMAIN indices
       THEN /\ ret' = [NoRet EXCEPT !.op = "rebalance", !.index_id = index_id,
                                        !.new_weights = new_weights,
                                    !.raised = "ValueError",
                                    !.message = "Index not found"]
            /\ UNCHANGED indices
       ELSE
       LET index == indices[index_id]
           assets == index.assets
           nav == calculate_nav(index)
           \* the first asset whose division by current_price fails
           bad == {k \in DOMAIN assets :
                      /\ assets[k].symbol \in DOMAIN new_weights
                      /\ assets[k].current_price = RZero}
           first_bad == CHOOSE k \in bad : \A j \in bad : k <= j
       IN  IF assets # <<>> /\ nav = RZero
           THEN \* old_weights divides by the NAV (simulator.py:283)
                /\ ret' = [NoRet EXCEPT !.op = "rebalance",
                                        !.index_id = index_id,
                                        !.new_weights = new_weights,
                                        !.raised = "ZeroDivisionError"]
                /\ UNCHANGED indices
           ELSE IF bad # {}
           THEN \* target_value / asset.current_price (simulator.py:295)
                /\ indices' = [indices EXCEPT ![index_id].assets =
                       RebalancedAssets(assets, new_weights, nav, first_bad - 1)]
                /\ ret' = [NoRet EXCEPT !.op = "rebalance",
                                        !.index_id = index_id,
                                        !.new_weights = new_weights,
                                        !.raised = "ZeroDivisionError"]
           ELSE /\ indices' = [indices EXCEPT
                       ![index_id].assets =
                           RebalancedAssets(assets, new_weights, nav, Len(assets)),
                       ![index_id].last_rebalance_time = now]
                /\ ret' = [NoRet EXCEPT
                             !.op = "rebalance", !.index_id = index_id,
                                        !.new_weights = new_weights,
                             !.total_cost =
                                 calculate_rebalance_cost(index, new_weights)]
    /\ burst' = BurstBroken(order_count_in_window)
    /\ UNCHANGED <<now, liquidity_info, retainer, heap, orders, order_queue,
                   last_execution_time, order_count_in_window, solver,
                   limiter_window, queue_manager, threads, admitted,
                   order_book, rebalance_manager>>

\* get_rate_limited_orders (simulator.py:77-82): the orders of the ledger
\* with status REJECTED.
get_rate_limited_orders ==
    {orders[p] : p \in {q \in DOMAIN orders : heap[orders[q]].status = "REJECTED"}}

\* get_fill_report (simulator.py:151-162): None for an unknown position_id,
\* ZeroDivisionError for an order of quantity 0, a FillReport otherwise.
get_fill_report(position_id) ==
    IF position_id \notin DOMAIN orders THEN [kind |-> "None"]
    ELSE LET order == heap[orders[position_id]]
         IN  IF order.quantity = RZero THEN [kind |-> "ZeroDivisionError"]
             ELSE [kind |-> "FillReport", position_id |-> position_id,
                   fill_percentage |->
                       RMul(RDiv(order.filled_quantity, order.quantity), R(100)),
                   loss |-> order.loss]

\* --------------------------------------------------------- specification
\* position_id is an opaque key: a buy uses an id of the ledger or the
\* least unused one.
FreshPositionIds ==
    {p \in PositionIds : \A q \in 1..(p - 1) : q \in DOMAIN orders}

\* The order engine: submission, cancellation and the drain of the queue,
\* over the index "X" once it is created and over the unknown index "Y".
Tick == TickUntil(MaxTime)

Next ==
    \/ Tick
    \/ \E c \in Creations : create_index(c[1], c[2])
    \/ \E c \in LiquidityCalls : set_liquidity_info(c[1], c[2])
    \/ \E p \in FreshPositionIds, c \in BuyCalls : buy(p, c[1], c[2], c[3])
    \/ \E p \in PositionIds : cancel(p)
    \/ process_queue

Spec == Init /\ [][Next]_vars

\* The drain over two indices, "X" and "Y" both created, whose liquidity
\* impacts differ and change between drains; the clock runs until a second
\* window has expired.
CreationsTwo == {
    <<"X", <<Asset("A", 1, 10, 10)>> >>,
    <<"Y", <<Asset("A", 1, 10, 10)>> >> }
LiquidityCallsTwo == { <<"X", ("A" :> Info(10, 2))>>, <<"Y", ("A" :> Info(10, 2))>> }
BuyCallsTwo == { <<"X", 2, 3>>, <<"Y", 2, 3>> }
MaxTimeTwo == 2 * (rate_limit_window + 1)

TickTwo == TickUntil(MaxTimeTwo)

NextTwo ==
    \/ TickTwo
    \/ \E c \in CreationsTwo : now = 0 /\ create_index(c[1], c[2])
    \/ \E c \in LiquidityCallsTwo : set_liquidity_info(c[1], c[2])
    \/ \E i \in IndexIds, p \in PriceDicts : update_prices(i, p)
    \/ \E p \in FreshPositionIds, c \in BuyCallsTwo :
          (c[1] \in DOMAIN indices /\ buy(p, c[1], c[2], c[3]))
    \/ process_queue

SpecTwo == Init /\ [][NextTwo]_vars

\* Executions over two indices: "X", which may get a liquidity constraint,
\* and "Y", which has none; both are created before the first order.
NextExec ==
    \/ Tick
    \/ \E c \in CreationsTwo : (heap = <<>> /\ create_index(c[1], c[2]))
    \/ \E c \in LiquidityCalls : set_liquidity_info(c[1], c[2])
    \/ \E p \in FreshPositionIds, c \in BuyCallsTwo :
          (c[1] \in DOMAIN indices /\ buy(p, c[1], c[2], c[3]))
    \/ process_queue

SpecExec == Init /\ [][NextExec]_vars

\* The index ledger: the indices "X" (assets A, B) and "Y" (asset A), price
\* updates, among them a price of 0, and rebalances with weight dicts that
\* cover an index, cover part of it or name a symbol it does not hold.  An
\* index is created once and rebalanced at most once per tick of the clock.
CreationsIndex == {
    <<"X", <<Asset("A", 1, 10, 10), Asset("B", 2, 5, 5)>> >>,
    <<"Y", <<Asset("A", 1, 10, 10)>> >> }
PriceDictsIndex == { ("A" :> R(20)), ("A" :> R(0)) }
WeightDictsIndex == {
    ("A" :> <<1, 2>> @@ "B" :> <<1, 2>>),
    ("A" :> <<1, 4>> @@ "B" :> <<3, 4>>),
    ("A" :> <<1, 2>>),
    ("A" :> <<1, 1>>) }

NextIndex ==
    \/ Tick
    \/ \E c \in CreationsIndex :
          (c[1] \notin DOMAIN indices /\ create_index(c[1], c[2]))
    \/ \E i \in IndexIds, p \in PriceDictsIndex : update_prices(i, p)
    \/ \E i \in IndexIds, w \in WeightDictsIndex :
          /\ i \in DOMAIN indices => indices[i].last_rebalance_time < now
          /\ rebalance(i, w)

SpecIndex == Init /\ [][NextIndex]_vars

\* The index ledger with a price of 0 for the second asset of "X": the NAV
\* of "X" stays positive and the update loop of rebalance reaches B after A.
PriceDictsZero == { ("A" :> R(20)), ("B" :> R(0)) }
\* The quantities of an index that is rebalanced are fractions with a
\* denominator up to this one.
MaxDenominator == 4

NextZero ==
    \/ Tick
    \/ \E c \in CreationsIndex :
          c[1] \notin DOMAIN indices /\ create_index(c[1], c[2])
    \/ \E i \in IndexIds, p \in PriceDictsZero : update_prices(i, p)
    \/ \E i \in IndexIds, w \in WeightDictsIndex :
          /\ i \in DOMAIN indices =>
                /\ indices[i].last_rebalance_time < now
                /\ \A k \in DOMAIN indices[i].assets :
                       indices[i].assets[k].quantity[2] <= MaxDenominator
          /\ rebalance(i, w)

SpecZero == Init /\ [][NextZero]_vars

\* The index ledger with asset lists as a caller can pass them to
\* create_index: "Y" is created from two tuples that carry the symbol A.
CreationsSymbols == {
    <<"X", <<Asset("A", 1, 10, 10), Asset("B", 2, 5, 5)>> >>,
    <<"Y", <<Asset("A", 1, 10, 10), Asset("A", 2, 10, 10)>> >> }

NextSymbols ==
    \/ Tick
    \/ \E c \in CreationsSymbols :
          c[1] \notin DOMAIN indices /\ create_index(c[1], c[2])
    \/ \E i \in IndexIds, p \in PriceDictsIndex : update_prices(i, p)
    \/ \E i \in IndexIds, w \in WeightDictsIndex :
          /\ i \in DOMAIN indices => indices[i].last_rebalance_time < now
          /\ rebalance(i, w)

SpecSymbols == Init /\ [][NextSymbols]_vars

\* The liquidity gate: one order on the index "X", whose assets, prices and
\* liquidity constraints vary, among them the index A, B, C of quantities
\* (1, 2, 5) at prices (10, 5, 2) with the limits 2,000,000, 1,000,000 and
\* 200,000 and an order of 1,000,000 units.
ExampleAssets == <<Asset("A", 1, 10, 10), Asset("B", 2, 5, 5), Asset("C", 5, 2, 2)>>
ExampleLiquidity ==
    "A" :> Info(2000000, 0) @@ "B" :> Info(1000000, 0) @@ "C" :> Info(200000, 0)
CreationsFill == {
    <<"X", ExampleAssets>>,
    <<"X", <<Asset("A", 1, 10, 10), Asset("B", 2, 5, 5)>> >> }
LiquidityCallsFill == {
    <<"X", ExampleLiquidity>>,
    <<"X", ("A" :> Info(5000000, 2))>>,
    <<"X", ("C" :> Info(4000000, 1))>>,
    <<"X", ("Z" :> Info(1, 1))>>,
    <<"X", EmptyDict>> }
BuyCallsFill == { <<"X", 1000000, 30>>, <<"X", 2000000, 30>>, <<"X", 2, 3>> }

NextFill ==
    \/ Tick
    \/ \E c \in CreationsFill : create_index(c[1], c[2])
    \/ \E c \in LiquidityCallsFill : set_liquidity_info(c[1], c[2])
    \/ \E p \in PriceDicts : update_prices("X", p)
    \/ \E c \in BuyCallsFill :
          (heap = <<>> /\ c[1] \in DOMAIN indices /\ buy(1, c[1], c[2], c[3]))
    \/ process_queue

SpecFill == Init /\ [][NextFill]_vars

\* ---------------------------------------------------------------- solver
\* Solver._calculate_fillable_quantity (solver.py:68-80): the depth of the
\* order book up to the first level above limit_price, at most required_qty.
RECURSIVE BookDepth(_, _)
BookDepth(orderbook, limit_price) ==
    IF orderbook = <<>> THEN RZero
    ELSE IF RLt(limit_price, Head(orderbook).price) THEN RZero
    ELSE RAdd(Head(orderbook).quantity, BookDepth(Tail(orderbook), limit_price))

calculate_fillable_quantity(orderbook, required_qty, limit_price) ==
    RMin(BookDepth(orderbook, limit_price), required_qty)

\* The loop of Solver._estimate_fill_price (solver.py:87-93): the cost of
\* the levels taken for remaining_qty.
RECURSIVE FillCost(_, _)
FillCost(orderbook, remaining_qty) ==
    IF orderbook = <<>> THEN RZero
    ELSE LET level == Head(orderbook)
             level_qty == RMin(remaining_qty, level.quantity)
             rest == RSub(remaining_qty, level_qty)
         IN  RAdd(RMul(level_qty, level.price),
                  IF RLe(rest, RZero) THEN RZero ELSE FillCost(Tail(orderbook), rest))

\* Solver._estimate_fill_price (solver.py:82-95).
estimate_fill_price(orderbook, quantity) ==
    IF RLt(RZero, quantity) THEN RDiv(FillCost(orderbook, quantity), quantity)
    ELSE RZero

\* liquidity_data.get(asset_id, {}).get('orderbook', []) (solver.py:42).
AvailableLiquidity(liquidity_data, asset_id) ==
    IF asset_id \in DOMAIN liquidity_data THEN liquidity_data[asset_id] ELSE <<>>

\* float('inf') (solver.py:33): above every rational under RLt and RMin.
Infinity == <<1, 0>>

\* The keys of asset_fill_pcts (solver.py:50), in insertion order.
RECURSIVE FillKeys(_)
FillKeys(index_assets) ==
    IF index_assets = <<>> THEN <<>>
    ELSE LET before == FillKeys(SubSeq(index_assets, 1, Len(index_assets) - 1))
             id == index_assets[Len(index_assets)].assetId
         IN  IF \E k \in 1..Len(before) : before[k] = id
             THEN before ELSE Append(before, id)

\* Solver.determine_fill_strategy (solver.py:27-66): the value returned, or
\* the exception raised.
determine_fill_strategy(order, liquidity_data) ==
    LET index_assets == order.assets
        required_qty(asset) == RMul(asset.quantity, order.quantity)
        fill_pct(asset) ==
            RDiv(calculate_fillable_quantity(
                     AvailableLiquidity(liquidity_data, asset.assetId),
                     required_qty(asset), order.indexPrice),
                 required_qty(asset))
        total[k \in 0..Len(index_assets)] ==
            IF k = 0 THEN Infinity
            ELSE RMin(total[k - 1], fill_pct(index_assets[k]))
        total_fillable_pct == total[Len(index_assets)]
        keys == FillKeys(index_assets)
    IN  IF \E k \in DOMAIN index_assets : required_qty(index_assets[k]) = RZero
        THEN [kind |-> "ZeroDivisionError"]
        ELSE IF \E k \in DOMAIN keys : keys[k] \notin DOMAIN liquidity_data
        THEN [kind |-> "KeyError"]
        ELSE [kind |-> "strategy",
              fill_percentage |-> total_fillable_pct,
              asset_fills |->
                 [id \in {keys[i] : i \in DOMAIN keys} |->
                    LET i == CHOOSE j \in DOMAIN keys : keys[j] = id
                        quantity == RMul(RMul(index_assets[i].quantity,
                                              order.quantity), total_fillable_pct)
                    IN  [quantity |-> quantity,
                         expected_price |->
                            estimate_fill_price(liquidity_data[id], quantity)]]]

\* The orders and the order books the solver is called with.
SolverAsset(assetId, quantity, price) ==
    [assetId |-> assetId, quantity |-> R(quantity), price |-> R(price)]
Level(price, quantity) == [price |-> R(price), quantity |-> R(quantity)]
ExampleSolverAssets ==
    <<SolverAsset("A", 1, 10), SolverAsset("B", 2, 5), SolverAsset("C", 5, 2)>>
ExampleBooks ==
    "A" :> <<Level(10, 2000000)>> @@ "B" :> <<Level(5, 1000000)>>
        @@ "C" :> <<Level(2, 200000)>>
SolverOrders ==
    [quantity : {R(1000000), R(2000000), R(100000), R(0)},
     indexPrice : {R(30), R(4), R(1)},
     assets : {ExampleSolverAssets,
               <<SolverAsset("A", 1, 10), SolverAsset("D", 1, 1)>>}]
SolverBooks == {
    ExampleBooks,
    "A" :> <<Level(10, 500000), Level(12, 2000000)>> @@ "B" :> <<Level(5, 1000000)>>
        @@ "C" :> <<Level(2, 200000), Level(3, 10000000)>>,
    "A" :> <<Level(10, 500000)>> @@ "B" :> <<>> @@ "C" :> <<Level(40, 1)>> }

InitSolver ==
    /\ now = 0
    /\ indices = EmptyDict
    /\ liquidity_info = EmptyDict
    /\ retainer = EmptyDict
    /\ heap = <<>>
    /\ orders = EmptyDict
    /\ order_queue = <<>>
    /\ last_execution_time = 0
    /\ order_count_in_window = 0
    /\ ret = NoRet
    /\ burst = BurstBroken(0)
    /\ solver \in [order : SolverOrders, liquidity_data : SolverBooks,
                    strategy : {[kind |-> "none"]}]
    /\ limiter_window = rate_limit_window
    /\ queue_manager = NoQueueManager
    /\ threads = NoThreads
    /\ admitted = NotRecorded
    /\ order_book = NoOrderBook
    /\ rebalance_manager = NoRebalanceManager

\* The call returns (or raises).
CallSolver ==
    /\ solver.strategy.kind = "none"
    /\ solver' = [solver EXCEPT !.strategy =
                     determine_fill_strategy(solver.order, solver.liquidity_data)]
    /\ UNCHANGED <<now, indices, liquidity_info, retainer, heap, orders,
                   order_queue, last_execution_time, order_count_in_window,
                   ret, burst,
                   limiter_window, queue_manager, threads, admitted,
                   order_book, rebalance_manager>>

NextSolver == CallSolver

SpecSolver == InitSolver /\ [][NextSolver]_vars

\* =========================================================== QueueManager
\* src/src/queue_manager.py.  The scaled sizes of the batch (100 orders and
\* 10 seconds in the source) and the number of add_to_queue calls of a run.
max_batch_size == 2
batch_window == 2
MaxItems == 3

MaxTimeQueue == 2 * batch_window

\* OrderPriority, by value.
OrderPriority == [REBALANCE |-> 1, CANCEL |-> 2, MARKET |-> 3, LIMIT |-> 4]

\* An order dict; action "" and indexId 0 stand for an absent key.
QueueOrder(positionId, timestamp, action, orderType, indexId) ==
    [positionId |-> positionId, timestamp |-> timestamp, action |-> action,
     orderType |-> orderType, indexId |-> indexId]

\* The order dicts add_to_queue is called with, but for their positionId.
QueueOrders ==
    { QueueOrder(0, ts, "rebalance", "market", 1) : ts \in 0..2 } \cup
    { QueueOrder(0, ts, "", "limit", 0) : ts \in 0..2 } \cup
    { QueueOrder(0, 1, "cancel", "limit", 1), QueueOrder(0, 1, "", "market", 0) }

determine_priority(order) ==
    IF order.action = "rebalance" THEN "REBALANCE"
    ELSE IF order.action = "cancel" THEN "CANCEL"
    ELSE IF order.orderType = "market" THEN "MARKET"
    ELSE "LIMIT"

QueueItem(order) ==
    [timestamp |-> order.timestamp, priority |-> determine_priority(order),
     order |-> order, batch_id |-> "None"]

\* QueueItem.__lt__
ItemLt(self, other) ==
    IF self.timestamp # other.timestamp
    THEN self.timestamp < other.timestamp
    ELSE OrderPriority[self.priority] < OrderPriority[other.priority]

\* heapq._siftdown, positions counted from 0 as in Python.
RECURSIVE siftdown(_, _, _, _)
siftdown(h, startpos, pos, newitem) ==
    IF pos > startpos
    THEN LET parentpos == (pos - 1) \div 2
             parent == h[parentpos + 1]
         IN  IF ItemLt(newitem, parent)
             THEN siftdown([h EXCEPT ![pos + 1] = parent], startpos,
                           parentpos, newitem)
             ELSE [h EXCEPT ![pos + 1] = newitem]
    ELSE [h EXCEPT ![pos + 1] = newitem]

\* The loop of heapq._siftup: the smaller child moves up until a leaf is
\* hit; the result is the list and the position of the leaf.
RECURSIVE siftup_loop(_, _)
siftup_loop(h, pos) ==
    LET endpos == Len(h)
        childpos == 2 * pos + 1
        rightpos == childpos + 1
        smaller == IF rightpos < endpos
                      /\ ~ItemLt(h[childpos + 1], h[rightpos + 1])
                   THEN rightpos ELSE childpos
    IN  IF childpos < endpos
        THEN siftup_loop([h EXCEPT ![pos + 1] = h[smaller + 1]], smaller)
        ELSE <<h, pos>>

\* heapq._siftup
siftup(h, pos) ==
    LET newitem == h[pos + 1]
        at_leaf == siftup_loop(h, pos)
    IN  siftdown([at_leaf[1] EXCEPT ![at_leaf[2] + 1] = newitem], pos,
                 at_leaf[2], newitem)

\* heapq.heappush
heappush(h, item) == siftdown(Append(h, item), 0, Len(h), item)

\* heapq.heappop on a non-empty list: the item handed out and the list left.
heappop(h) ==
    LET lastelt == h[Len(h)]
        rest == SubSeq(h, 1, Len(h) - 1)
    IN  IF rest # <<>>
        THEN [item |-> rest[1], heap |-> siftup([rest EXCEPT ![1] = lastelt], 0)]
        ELSE [item |-> lastelt, heap |-> rest]

\* BatchManager.__init__
BatchManager ==
    [current_batch |-> <<>>, current_batch_size |-> 0,
     max_batch_size |-> max_batch_size, batch_window |-> batch_window,
     last_batch_time |-> now]

\* QueueManager.__init__; added counts the add_to_queue calls made so far.
NewQueueManager ==
    [order_queue |-> <<>>, batch_manager |-> BatchManager,
     index_queues |-> EmptyDict, added |-> 0]

can_add_to_batch(batch_manager) ==
    batch_manager.current_batch_size < batch_manager.max_batch_size

add_to_batch(batch_manager, order) ==
    IF ~can_add_to_batch(batch_manager) THEN batch_manager
    ELSE [batch_manager EXCEPT
              !.current_batch = Append(@, order),
              !.current_batch_size = @ + 1]

\* should_execute_batch without the wait for the window.
should_execute_batch_at_once(batch_manager) == TRUE

should_execute_batch(batch_manager) ==
    \/ now - batch_manager.last_batch_time >= batch_manager.batch_window
    \/ batch_manager.current_batch_size >= batch_manager.max_batch_size

clear_batch(batch_manager) ==
    [batch_manager EXCEPT !.current_batch = <<>>,
                          !.current_batch_size = 0,
                          !.last_batch_time = now]

\* The calls of the QueueManager leave the simulator alone.
QueueFrame ==
    UNCHANGED <<now, indices, liquidity_info, retainer, heap, orders,
                order_queue, last_execution_time, order_count_in_window,
                burst, solver, limiter_window, threads,
                admitted,
                order_book, rebalance_manager>>

\* add_to_queue(order): the order is pushed on the main queue and, when it
\* names an index, on the queue of that index.
add_to_queue(order) ==
    LET queue_item == QueueItem(order)
        index_id == order.indexId
        index_queue == IF index_id \in DOMAIN queue_manager.index_queues
                       THEN queue_manager.index_queues[index_id] ELSE <<>>
    IN  /\ queue_manager' =
              [queue_manager EXCEPT
                  !.order_queue = heappush(@, queue_item),
                  !.index_queues =
                      IF index_id # 0
                      THEN Put(@, index_id, heappush(index_queue, queue_item))
                      ELSE @,
                  !.added = @ + 1]
        /\ ret' = [NoRet EXCEPT !.op = "add_to_queue", !.order = order,
                                !.success = TRUE]
        /\ QueueFrame

\* The loop of execute_batch from the queue and the BatchManager q holds,
\* with executed_orders so far.
RECURSIVE BatchLoop(_, _)
BatchLoop(q, executed_orders) ==
    IF q.order_queue # <<>> /\ can_add_to_batch(q.batch_manager)
    THEN LET popped == heappop(q.order_queue)
             added == can_add_to_batch(q.batch_manager)
         IN  BatchLoop([q EXCEPT
                            !.order_queue = popped.heap,
                            !.batch_manager = add_to_batch(@, popped.item.order)],
                       IF added THEN Append(executed_orders, popped.item.order)
                       ELSE executed_orders)
    ELSE [queue_manager |-> q, executed_orders |-> executed_orders]

execute_batch ==
    LET done == BatchLoop(queue_manager, <<>>)
    IN  /\ IF ~should_execute_batch(queue_manager.batch_manager)
           THEN /\ queue_manager' = queue_manager
                /\ ret' = [NoRet EXCEPT !.op = "execute_batch"]
           ELSE /\ queue_manager' =
                       IF done.executed_orders # <<>>
                       THEN [done.queue_manager EXCEPT
                                !.batch_manager = clear_batch(@)]
                       ELSE done.queue_manager
                /\ ret' = [NoRet EXCEPT !.op = "execute_batch",
                                        !.executed = done.executed_orders]
        /\ QueueFrame

\* cleanup_old_orders(max_age): the list comprehension keeps the items in
\* the order the list holds them.
cleanup_old_orders(max_age) ==
    /\ queue_manager' =
          [queue_manager EXCEPT
              !.order_queue =
                  SelectSeq(@, LAMBDA item : now - item.timestamp <= max_age)]
    /\ ret' = [NoRet EXCEPT !.op = "cleanup_old_orders", !.quantity = max_age]
    /\ QueueFrame

InitQueue ==
    /\ now = 0
    /\ indices = EmptyDict
    /\ liquidity_info = EmptyDict
    /\ retainer = EmptyDict
    /\ heap = <<>>
    /\ orders = EmptyDict
    /\ order_queue = <<>>
    /\ last_execution_time = 0
    /\ order_count_in_window = 0
    /\ ret = NoRet
    /\ burst = BurstBroken(0)
    /\ solver = NoCall
    /\ limiter_window = rate_limit_window
    /\ queue_manager = NewQueueManager
    /\ threads = NoThreads
    /\ admitted = NotRecorded
    /\ order_book = NoOrderBook
    /\ rebalance_manager = NoRebalanceManager

NextQueue ==
    \/ TickUntil(MaxTimeQueue)
    \/ \E order \in QueueOrders :
          /\ queue_manager.added < MaxItems
          /\ order.timestamp <= now
          /\ add_to_queue([order EXCEPT !.positionId = queue_manager.added + 1])
    \/ execute_batch
    \/ \E max_age \in 0..batch_window : cleanup_old_orders(max_age)

SpecQueue == InitQueue /\ [][NextQueue]_vars

\* ================================================================= bursts
\* The limiter with a window of two ticks of the clock, so that two calls
\* can lie less than a window apart at different times; the admissions of
\* buy are recorded.
MaxTimeBurst == 2 * rate_limit_window + 1

InitBurst ==
    /\ now = 0
    /\ indices = EmptyDict
    /\ liquidity_info = EmptyDict
    /\ retainer = EmptyDict
    /\ heap = <<>>
    /\ orders = EmptyDict
    /\ order_queue = <<>>
    /\ last_execution_time = 0
    /\ order_count_in_window = 0
    /\ ret = NoRet
    /\ burst = BurstBroken(0)
    /\ solver = NoCall
    /\ limiter_window = 2 * rate_limit_window
    /\ queue_manager = NoQueueManager
    /\ threads = NoThreads
    /\ admitted = [on |-> TRUE, list |-> <<>>]
    /\ order_book = NoOrderBook
    /\ rebalance_manager = NoRebalanceManager

NextBurst ==
    \/ TickUntil(MaxTimeBurst)
    \/ \E p \in FreshPositionIds, c \in BuyCalls : buy(p, c[1], c[2], c[3])

SpecBurst == InitBurst /\ [][NextBurst]_vars

\* ================================================================ threads
\* Two threads call buy on one TradingSimulator; a step is one statement of
\* buy or of _check_rate_limit, and the statements of the two calls
\* interleave freely (the simulator holds no lock).
Threads == {1, 2}

\* The arguments (index_id, quantity, index_price) the threads call buy with.
ThreadCalls == { <<"X", 2, 3>>, <<"X", 0, 3>> }

\* A thread outside buy; inside, pc names the next statement and the other
\* fields are the arguments and the locals of buy and _check_rate_limit.
IdleThread ==
    [pc |-> "idle", position_id |-> 0, index_id |-> "", quantity |-> 0,
     index_price |-> 0, now |-> 0, time_diff |-> 0, status |-> "",
     order |-> 0]

InitThreads ==
    /\ now = 0
    /\ indices = EmptyDict
    /\ liquidity_info = EmptyDict
    /\ retainer = EmptyDict
    /\ heap = <<>>
    /\ orders = EmptyDict
    /\ order_queue = <<>>
    /\ last_execution_time = 0
    /\ order_count_in_window = 0
    /\ ret = NoRet
    /\ burst = BurstBroken(0)
    /\ solver = NoCall
    /\ limiter_window = rate_limit_window
    /\ queue_manager = NoQueueManager
    /\ threads = [t \in Threads |-> IdleThread]
    /\ admitted = NotRecorded
    /\ order_book = NoOrderBook
    /\ rebalance_manager = NoRebalanceManager

\* What no statement of buy assigns.
ThreadFrame ==
    UNCHANGED <<now, indices, liquidity_info, retainer, burst, solver,
                limiter_window, queue_manager, admitted,
                order_book, rebalance_manager>>

\* Thread t moves to statement pc.
Goto(t, pc) == [threads EXCEPT ![t].pc = pc]

\* Thread t enters buy(position_id, index_id, quantity, index_price).
buy_call(t, position_id, index_id, quantity, index_price) ==
    /\ threads[t].pc = "idle"
    /\ Len(heap) + Cardinality({u \in Threads : /\ threads[u].pc # "idle"
                                                /\ threads[u].order = 0})
          < MaxOrders
    /\ position_id \notin DOMAIN orders
    /\ \A u \in Threads :
          threads[u].pc # "idle" => threads[u].position_id # position_id
    /\ threads' = [threads EXCEPT ![t] =
                      [IdleThread EXCEPT !.pc = "test_quantity",
                                         !.position_id = position_id,
                                         !.index_id = index_id,
                                         !.quantity = quantity,
                                         !.index_price = index_price]]
    /\ UNCHANGED <<heap, orders, order_queue, last_execution_time,
                   order_count_in_window, ret>>
    /\ ThreadFrame

\* if quantity <= 0:  (simulator.py:109)
buy_test_quantity(t) ==
    /\ threads[t].pc = "test_quantity"
    /\ threads' = IF BuyRejectsQuantity(threads[t].quantity)
                  THEN [threads EXCEPT ![t].pc = "create_order",
                                       ![t].status = "REJECTED"]
                  ELSE Goto(t, "read_clock")
    /\ UNCHANGED <<heap, orders, order_queue, last_execution_time,
                   order_count_in_window, ret>>
    /\ ThreadFrame

\* now = datetime.now()  (simulator.py:62)
check_read_clock(t) ==
    /\ threads[t].pc = "read_clock"
    /\ threads' = [threads EXCEPT ![t].pc = "time_diff", ![t].now = now]
    /\ UNCHANGED <<heap, orders, order_queue, last_execution_time,
                   order_count_in_window, ret>>
    /\ ThreadFrame

\* time_diff = now - self.last_execution_time  (simulator.py:63)
check_time_diff(t) ==
    /\ threads[t].pc = "time_diff"
    /\ threads' = [threads EXCEPT
                      ![t].pc = "test_window",
                      ![t].time_diff = threads[t].now - last_execution_time]
    /\ UNCHANGED <<heap, orders, order_queue, last_execution_time,
                   order_count_in_window, ret>>
    /\ ThreadFrame

\* if time_diff > timedelta(seconds=self.rate_limit_window):  (simulator.py:66)
check_test_window(t) ==
    /\ threads[t].pc = "test_window"
    /\ threads' = IF threads[t].time_diff > limiter_window
                  THEN Goto(t, "reset_count") ELSE Goto(t, "test_limit")
    /\ UNCHANGED <<heap, orders, order_queue, last_execution_time,
                   order_count_in_window, ret>>
    /\ ThreadFrame

\* self.order_count_in_window = 0  (simulator.py:67)
check_reset_count(t) ==
    /\ threads[t].pc = "reset_count"
    /\ order_count_in_window' = 0
    /\ threads' = Goto(t, "reset_time")
    /\ UNCHANGED <<heap, orders, order_queue, last_execution_time, ret>>
    /\ ThreadFrame

\* self.last_execution_time = now  (simulator.py:68)
check_reset_time(t) ==
    /\ threads[t].pc = "reset_time"
    /\ last_execution_time' = threads[t].now
    /\ threads' = Goto(t, "test_limit")
    /\ UNCHANGED <<heap, orders, order_queue, order_count_in_window, ret>>
    /\ ThreadFrame

\* if self.order_count_in_window >= self.rate_limit_orders: return False
\* (simulator.py:71-72), and the test of the result in buy (line 122).
check_test_limit(t) ==
    /\ threads[t].pc = "test_limit"
    /\ threads' = IF order_count_in_window >= rate_limit_orders
                  THEN [threads EXCEPT ![t].pc = "create_order",
                                       ![t].status = "REJECTED"]
                  ELSE Goto(t, "increment")
    /\ UNCHANGED <<heap, orders, order_queue, last_execution_time,
                   order_count_in_window, ret>>
    /\ ThreadFrame

\* self.order_count_in_window += 1; return True  (simulator.py:74-75)
check_increment(t) ==
    /\ threads[t].pc = "increment"
    /\ order_count_in_window' = order_count_in_window + 1
    /\ threads' = [threads EXCEPT ![t].pc = "create_order",
                                  ![t].status = "PENDING"]
    /\ UNCHANGED <<heap, orders, order_queue, last_execution_time, ret>>
    /\ ThreadFrame

\* order = Order(...)  (simulator.py:110, 123, 135)
buy_create_order(t) ==
    /\ threads[t].pc = "create_order"
    /\ heap' = Append(heap, NewOrder(threads[t].position_id,
                                     threads[t].index_id,
                                     threads[t].quantity,
                                     threads[t].index_price,
                                     threads[t].status))
    /\ threads' = [threads EXCEPT ![t].pc = "store_order",
                                  ![t].order = Len(heap) + 1]
    /\ UNCHANGED <<orders, order_queue, last_execution_time,
                   order_count_in_window, ret>>
    /\ ThreadFrame

\* self.orders[position_id] = order  (simulator.py:119, 132, 145)
buy_store_order(t) ==
    /\ threads[t].pc = "store_order"
    /\ orders' = Put(orders, threads[t].position_id, threads[t].order)
    /\ threads' = IF threads[t].status = "PENDING"
                  THEN Goto(t, "enqueue") ELSE Goto(t, "return")
    /\ UNCHANGED <<heap, order_queue, last_execution_time,
                   order_count_in_window, ret>>
    /\ ThreadFrame

\* self.order_queue.append(order)  (simulator.py:146)
buy_enqueue(t) ==
    /\ threads[t].pc = "enqueue"
    /\ order_queue' = Append(order_queue, threads[t].order)
    /\ threads' = Goto(t, "return")
    /\ UNCHANGED <<heap, orders, last_execution_time,
                   order_count_in_window, ret>>
    /\ ThreadFrame

\* return order  (simulator.py:120, 133, 148)
buy_return(t) ==
    /\ threads[t].pc = "return"
    /\ ret' = [NoRet EXCEPT !.op = "buy",
                            !.position_id = threads[t].position_id,
                            !.index_id = threads[t].index_id,
                            !.quantity = threads[t].quantity,
                            !.price = threads[t].index_price,
                            !.order = threads[t].order,
                            !.status = threads[t].status]
    /\ threads' = [threads EXCEPT ![t] = IdleThread]
    /\ UNCHANGED <<heap, orders, order_queue, last_execution_time,
                   order_count_in_window>>
    /\ ThreadFrame

NextThreads ==
    \/ Tick
    \/ \E t \in Threads, p \in PositionIds, c \in ThreadCalls :
          buy_call(t, p, c[1], c[2], c[3])
    \/ \E t \in Threads : buy_test_quantity(t)
    \/ \E t \in Threads : check_read_clock(t)
    \/ \E t \in Threads : check_time_diff(t)
    \/ \E t \in Threads : check_test_window(t)
    \/ \E t \in Threads : check_reset_count(t)
    \/ \E t \in Threads : check_reset_time(t)
    \/ \E t \in Threads : check_test_limit(t)
    \/ \E t \in Threads : check_increment(t)
    \/ \E t \in Threads : buy_create_order(t)
    \/ \E t \in Threads : buy_store_order(t)
    \/ \E t \in Threads : buy_enqueue(t)
    \/ \E t \in Threads : buy_return(t)

SpecThreads == InitThreads /\ [][NextThreads]_vars

\* ============================================================== liveness
\* The engine run without end.  The code reads the clock only to compare
\* now - last_execution_time with the window, so the clock is kept where it
\* is and a tick moves last_execution_time back by one instead; once the
\* window has expired further ticks change nothing the code can see.
TickLive ==
    /\ ~WindowExpired
    /\ last_execution_time' = last_execution_time - 1
    /\ UNCHANGED <<now, indices, liquidity_info, retainer, heap, orders,
                   order_queue, order_count_in_window, ret, burst, solver,
                   limiter_window, queue_manager, threads, admitted,
                   order_book, rebalance_manager>>

NextLive ==
    \/ TickLive
    \/ \E c \in Creations : create_index(c[1], c[2])
    \/ \E p \in FreshPositionIds, c \in BuyCalls : buy(p, c[1], c[2], c[3])
    \/ \E p \in PositionIds : cancel(p)
    \/ process_queue

\* Time passes, and process_queue, which can be called in every state, is
\* called again and again with an effect.
SpecLive ==
    /\ Init
    /\ [][NextLive]_vars
    /\ WF_vars(TickLive)
    /\ []<><<process_queue>>_vars

\* ============================================================== OrderBook
\* The order dicts handed to add_order: positionId and indexId over two
\* values each, and one dict without an indexId.
BookPositionIds == {1, 2}
BookIndexIds == {1, 2}
BookOrders ==
    {[positionId |-> p, indexId |-> i] : p \in BookPositionIds, i \in BookIndexIds}
        \cup {[positionId |-> 1]}

\* OrderBook.__init__
NewOrderBook == [orders |-> EmptyDict, index_orders |-> EmptyDict]

\* The number of position ids held by the lists of index_orders.
RECURSIVE Listed(_, _)
Listed(index_orders, ids) ==
    IF ids = {} THEN 0
    ELSE LET i == CHOOSE x \in ids : TRUE
         IN  Len(index_orders[i]) + Listed(index_orders, ids \ {i})

\* list.remove(x): the list without the first occurrence of x.
remove(list, x) ==
    LET k == CHOOSE j \in 1..Len(list) :
                 list[j] = x /\ \A h \in 1..(j - 1) : list[h] # x
    IN  [j \in 1..(Len(list) - 1) |-> IF j < k THEN list[j] ELSE list[j + 1]]

\* del d[key]
Del(d, key) == [k \in DOMAIN d \ {key} |-> d[k]]

BookFrame ==
    UNCHANGED <<now, indices, liquidity_info, retainer, heap, orders,
                order_queue, last_execution_time, order_count_in_window,
                burst, solver, limiter_window, queue_manager, threads,
                admitted, rebalance_manager>>

\* OrderBook.add_order
add_order(order) ==
    /\ order_book # NoOrderBook
    /\ IF "positionId" \notin DOMAIN order \/ "indexId" \notin DOMAIN order
       THEN /\ ret' = [NoRet EXCEPT !.op = "add_order", !.success = FALSE]
            /\ UNCHANGED order_book
       ELSE LET position_id == order.positionId
                index_id == order.indexId
                list == IF index_id \in DOMAIN order_book.index_orders
                        THEN order_book.index_orders[index_id]
                        ELSE <<>>
            IN  /\ order_book' =
                       [orders |-> Put(order_book.orders, position_id, order),
                        index_orders |->
                            Put(order_book.index_orders, index_id,
                                Append(list, position_id))]
                /\ ret' = [NoRet EXCEPT !.op = "add_order",
                                        !.position_id = position_id,
                                        !.success = TRUE]
    /\ BookFrame

\* OrderBook.cancel_order
cancel_order(order_id) ==
    /\ order_book # NoOrderBook
    /\ IF order_id \notin DOMAIN order_book.orders
       THEN /\ ret' = [NoRet EXCEPT !.op = "cancel_order",
                                    !.position_id = order_id,
                                    !.success = FALSE]
            /\ UNCHANGED order_book
       ELSE LET order == order_book.orders[order_id]
                index_id == order.indexId
                listed == index_id \in DOMAIN order_book.index_orders
                list == order_book.index_orders[index_id]
                found == \E j \in 1..Len(list) : list[j] = order_id
            IN  IF listed /\ ~found
                THEN /\ ret' = [NoRet EXCEPT !.op = "cancel_order",
                                             !.position_id = order_id,
                                             !.raised = "ValueError"]
                     /\ UNCHANGED order_book
                ELSE /\ order_book' =
                            [orders |-> Del(order_book.orders, order_id),
                             index_orders |->
                                 IF listed
                                 THEN Put(order_book.index_orders, index_id,
                                          remove(list, order_id))
                                 ELSE order_book.index_orders]
                     /\ ret' = [NoRet EXCEPT !.op = "cancel_order",
                                             !.position_id = order_id,
                                             !.success = TRUE]
    /\ BookFrame

\* OrderBook.get_orders: the list it returns, or the exception it raises.
get_orders(index_id) ==
    IF index_id \notin DOMAIN order_book.index_orders
    THEN [raised |-> "", orders |-> <<>>]
    ELSE LET list == order_book.index_orders[index_id]
         IN  IF \E j \in 1..Len(list) : list[j] \notin DOMAIN order_book.orders
             THEN [raised |-> "KeyError", orders |-> <<>>]
             ELSE [raised |-> "",
                   orders |-> [j \in 1..Len(list) |-> order_book.orders[list[j]]]]

InitBook ==
    /\ now = 0
    /\ indices = EmptyDict
    /\ liquidity_info = EmptyDict
    /\ retainer = EmptyDict
    /\ heap = <<>>
    /\ orders = EmptyDict
    /\ order_queue = <<>>
    /\ last_execution_time = 0
    /\ order_count_in_window = 0
    /\ ret = NoRet
    /\ burst = BurstBroken(0)
    /\ solver = NoCall
    /\ limiter_window = rate_limit_window
    /\ queue_manager = NoQueueManager
    /\ threads = NoThreads
    /\ admitted = NotRecorded
    /\ order_book = NewOrderBook
    /\ rebalance_manager = NoRebalanceManager

NextBook ==
    \/ \E order \in BookOrders :
          /\ Listed(order_book.index_orders, DOMAIN order_book.index_orders)
                 < MaxItems
          /\ add_order(order)
    \/ \E order_id \in BookPositionIds : cancel_order(order_id)

SpecBook == InitBook /\ [][NextBook]_vars

\* ======================================================= RebalanceManager
\* self.rebalance_interval (rebalance.py:19, 30 days), scaled down to ticks.
rebalance_interval == 2
\* The clock runs until two intervals have passed.
MaxTimeRebalance == 2 * rebalance_interval
\* self.fee_rate (rebalance.py:21)
fee_rate == <<1, 1000>>

RebalanceIndexIds == {1, 2}

RebalanceAsset(asset_id, quantity, price_current, target_weight) ==
    [asset_id |-> asset_id, quantity |-> quantity,
     price_current |-> price_current, target_weight |-> target_weight]

\* The lists handed in as current_assets: one already at its target weights,
\* one away from them, one with an asset whose price is 0.
RebalanceAssetLists ==
    {<<RebalanceAsset("A", R(2), R(10), <<1, 2>>),
       RebalanceAsset("B", R(1), R(20), <<1, 2>>)>>,
     <<RebalanceAsset("A", R(3), R(10), <<1, 2>>),
       RebalanceAsset("B", R(1), R(10), <<1, 2>>)>>,
     <<RebalanceAsset("A", R(1), R(0), ROne)>>}

\* The dicts handed in as liquidity_data: asset id -> its 'orderbook' list.
RebalanceLiquidity ==
    {EmptyDict,
     [a \in {"B"} |-> <<[quantity |-> <<1, 2>>, price |-> R(11)]>>]}

\* RebalanceManager.__init__
NewRebalanceManager == [last_rebalance |-> EmptyDict]

\* sum(asset['quantity'] * asset['price_current'] for asset in current_assets)
RECURSIVE TotalValue(_, _)
TotalValue(current_assets, n) ==
    IF n = 0 THEN RZero
    ELSE RAdd(TotalValue(current_assets, n - 1),
              RMul(current_assets[n].quantity, current_assets[n].price_current))

\* RebalanceManager._calculate_target_quantity, for a price that is not 0.
calculate_target_quantity(asset, total_value) ==
    LET target_weight == asset.target_weight
        target_value == RMul(total_value, target_weight)
    IN  RDiv(target_value, asset.price_current)

\* RebalanceManager.calculate_new_weights: it raises ZeroDivisionError at the
\* first asset whose price is 0.
calculate_new_weights(index_id, current_assets) ==
    LET total_value == TotalValue(current_assets, Len(current_assets))
    IN  IF \E k \in 1..Len(current_assets) :
               current_assets[k].price_current = RZero
        THEN [raised |-> "ZeroDivisionError"]
        ELSE [raised |-> "",
              index_id |-> index_id,
              total_value |-> total_value,
              targets |->
                  [k \in 1..Len(current_assets) |->
                      [asset_id |-> current_assets[k].asset_id,
                       target_quantity |->
                           calculate_target_quantity(current_assets[k], total_value),
                       current_quantity |-> current_assets[k].quantity,
                       target_price |-> current_assets[k].price_current,
                       current_price |-> current_assets[k].price_current]]]

\* The loop of _calculate_trade_cost over the levels from k on: the value
\* executed and the quantity left.
RECURSIVE TradeFill(_, _, _, _)
TradeFill(orderbook, k, executed_value, remaining_qty) ==
    IF k > Len(orderbook) \/ RLe(remaining_qty, RZero)
    THEN [executed_value |-> executed_value, remaining_qty |-> remaining_qty]
    ELSE LET level_qty == RMin(remaining_qty, orderbook[k].quantity)
         IN  TradeFill(orderbook, k + 1,
                       RAdd(executed_value, RMul(level_qty, orderbook[k].price)),
                       RSub(remaining_qty, level_qty))

\* RebalanceManager._calculate_trade_cost, for a quantity that is not 0.
calculate_trade_cost(trade, orderbook) ==
    LET quantity == trade.quantity
        target_price == trade.target_price
        fill == TradeFill(orderbook, 1, RZero, quantity)
        executed_value ==
            IF RLt(RZero, fill.remaining_qty)
            THEN RAdd(fill.executed_value, RMul(fill.remaining_qty, target_price))
            ELSE fill.executed_value
        avg_price == RDiv(executed_value, quantity)
        slippage_cost == RMul(RAbs(RSub(avg_price, target_price)), quantity)
        fee_cost == RMul(executed_value, fee_rate)
    IN  RAdd(slippage_cost, fee_cost)

\* The trades execute_rebalance builds from the first n targets.
RECURSIVE RebalanceTrades(_, _, _)
RebalanceTrades(targets, liquidity_data, n) ==
    IF n = 0 THEN <<>>
    ELSE LET target == targets[n]
             before == RebalanceTrades(targets, liquidity_data, n - 1)
             quantity_diff == RSub(target.target_quantity, target.current_quantity)
             trade == [asset_id |-> target.asset_id,
                       quantity |-> RAbs(quantity_diff),
                       side |-> IF RLt(RZero, quantity_diff) THEN "buy" ELSE "sell",
                       target_price |-> target.target_price]
             orderbook == IF target.asset_id \in DOMAIN liquidity_data
                          THEN liquidity_data[target.asset_id]
                          ELSE <<>>
         IN  IF RLt(RZero, RAbs(quantity_diff))
             THEN Append(before,
                         [asset_id |-> trade.asset_id,
                          quantity |-> trade.quantity,
                          side |-> trade.side,
                          target_price |-> trade.target_price,
                          estimated_cost |-> calculate_trade_cost(trade, orderbook)])
             ELSE before

RECURSIVE TradesCost(_, _)
TradesCost(trades, n) ==
    IF n = 0 THEN RZero
    ELSE RAdd(TradesCost(trades, n - 1), trades[n].estimated_cost)

\* A _should_rebalance that lets every call through.
should_rebalance_always(index_id) == TRUE

\* RebalanceManager._should_rebalance
should_rebalance(index_id) ==
    IF index_id \notin DOMAIN rebalance_manager.last_rebalance
    THEN TRUE
    ELSE LET time_since_last == now - rebalance_manager.last_rebalance[index_id]
         IN  time_since_last >= rebalance_interval

RebalanceFrame ==
    UNCHANGED <<now, indices, liquidity_info, retainer, heap, orders,
                order_queue, last_execution_time, order_count_in_window,
                burst, solver, limiter_window, queue_manager, threads,
                admitted, order_book>>

\* RebalanceManager.execute_rebalance
execute_rebalance(index_id, current_assets, liquidity_data) ==
    /\ rebalance_manager # NoRebalanceManager
    /\ IF ~should_rebalance(index_id)
       THEN /\ ret' = [NoRet EXCEPT !.op = "execute_rebalance",
                                    !.index_id = index_id,
                                    !.status = "skipped",
                                    !.message = "Not time for rebalance"]
            /\ UNCHANGED rebalance_manager
       ELSE LET rebalance_targets == calculate_new_weights(index_id, current_assets)
            IN  IF rebalance_targets.raised # ""
                THEN /\ ret' = [NoRet EXCEPT !.op = "execute_rebalance",
                                             !.index_id = index_id,
                                             !.raised = rebalance_targets.raised]
                     /\ UNCHANGED rebalance_manager
                ELSE LET trades == RebalanceTrades(rebalance_targets.targets,
                                                   liquidity_data,
                                                   Len(rebalance_targets.targets))
                         total_cost == TradesCost(trades, Len(trades))
                     IN  /\ rebalance_manager' =
                                [rebalance_manager EXCEPT !.last_rebalance =
                                    Put(rebalance_manager.last_rebalance,
                                        index_id, now)]
                         /\ ret' = [NoRet EXCEPT !.op = "execute_rebalance",
                                                 !.index_id = index_id,
                                                 !.status = "executed",
                                                 !.executed = trades,
                                                 !.total_cost = total_cost]
    /\ RebalanceFrame

InitRebalance ==
    /\ now = 0
    /\ indices = EmptyDict
    /\ liquidity_info = EmptyDict
    /\ retainer = EmptyDict
    /\ heap = <<>>
    /\ orders = EmptyDict
    /\ order_queue = <<>>
    /\ last_execution_time = 0
    /\ order_count_in_window = 0
    /\ ret = NoRet
    /\ burst = BurstBroken(0)
    /\ solver = NoCall
    /\ limiter_window = rate_limit_window
    /\ queue_manager = NoQueueManager
    /\ threads = NoThreads
    /\ admitted = NotRecorded
    /\ order_book = NoOrderBook
    /\ rebalance_manager = NewRebalanceManager

NextRebalance ==
    \/ TickUntil(MaxTimeRebalance)
    \/ \E index_id \in RebalanceIndexIds, current_assets \in RebalanceAssetLists,
          liquidity_data \in RebalanceLiquidity :
          execute_rebalance(index_id, current_assets, liquidity_data)

SpecRebalance == InitRebalance /\ [][NextRebalance]_vars

\* ================================================================ claims
\* The engine's own state: everything but the call record and the burst.
engine == <<now, indices, liquidity_info, retainer, heap, orders, order_queue,
            last_execution_time, order_count_in_window>>

InQueue(obj, queue) == \E k \in 1..Len(queue) : queue[k] = obj

\* C1: once an order is FILLED or CANCELLED it never changes again: no later
\* call changes its status, filled_quantity, filled_price or loss.
C1_TerminalOrdersImmutable ==
    [][\A obj \in DOMAIN heap :
          heap[obj].status \in {"FILLED", "CANCELLED"} => heap'[obj] = heap[obj]]_vars

\* C2: an order that buy created REJECTED keeps the status REJECTED under
\* every later call.
C2_RejectedIsTerminal ==
    [][\A obj \in DOMAIN heap :
          heap[obj].status = "REJECTED" => heap'[obj].status = "REJECTED"]_vars

\* C3: in a run of buys with positive quantity that starts from an empty
\* window and stays inside it, the first rate_limit_orders buys return
\* PENDING and every further one REJECTED; a denied buy leaves the counter
\* and the window start as they were.
C3_RateLimitAtSubmission ==
    [][/\ burst'.open =>
            \A k \in 1..Len(burst'.statuses) :
               burst'.statuses[k] =
                  IF k <= rate_limit_orders THEN "PENDING" ELSE "REJECTED"
       /\ \A p \in PositionIds, c \in BuyCalls :
            (buy(p, c[1], c[2], c[3]) /\ c[2] > 0 /\ ret'.status = "REJECTED")
               => /\ order_count_in_window' = order_count_in_window
                  /\ last_execution_time' = last_execution_time]_vars

\* A run of rate_limit_orders + 1 buys in one window has been made.
C3_Witness ==
    /\ burst.open
    /\ Len(burst.statuses) = rate_limit_orders + 1
    /\ ret.op = "buy" /\ ret.status = "REJECTED"

\* C4: process_queue (over orders whose index exists) executes exactly
\* min(queue length, available slots) orders; every other queued order stays
\* in the queue with its status unchanged, and no order becomes REJECTED.
C4_DrainExecutesUpToSlots ==
    [][(/\ process_queue
        /\ \A k \in 1..Len(order_queue) :
              heap[order_queue[k]].index_id \in DOMAIN indices) =>
         LET n == IF Len(order_queue) < AvailableSlots
                  THEN Len(order_queue) ELSE AvailableSlots
         IN  /\ Len(ret'.executed) = n
             /\ \A k \in 1..Len(order_queue) :
                   LET obj == order_queue[k]
                   IN  InQueue(obj, ret'.executed)
                       \/ (/\ InQueue(obj, order_queue')
                           /\ heap'[obj].status = heap[obj].status)
             /\ \A obj \in DOMAIN heap :
                   heap[obj].status # "REJECTED" => heap'[obj].status # "REJECTED"]_vars

\* The queue position of obj in s, 0 when it is not in s.
Position(obj, s) == IF InQueue(obj, s) THEN CHOOSE k \in 1..Len(s) : s[k] = obj ELSE 0

\* a goes before b: its impact is lower or, the impacts being equal, buy
\* enqueued it first (object ids are given in the order of the buy calls).
GoesBefore(a, b) ==
    \/ RLt(liquidity_impact(heap[a]), liquidity_impact(heap[b]))
    \/ /\ liquidity_impact(heap[a]) = liquidity_impact(heap[b])
       /\ a < b

\* C5: every drain executes the queued orders in ascending liquidity
\* impact and, among orders of equal impact, in the order in which buy
\* enqueued them: an executed order goes before every queued order that is
\* executed after it or not executed.
C5_DrainOrder ==
    [][process_queue =>
         \A i \in 1..Len(order_queue), j \in 1..Len(order_queue) :
            LET a == order_queue[i]
                b == order_queue[j]
                ex == ret'.executed
            IN  (/\ a # b
                 /\ InQueue(a, ex)
                 /\ (~InQueue(b, ex) \/ Position(a, ex) < Position(b, ex)))
                => GoesBefore(a, b)]_vars

\* C6: after a run of at least rate_limit_orders buys in one window that all
\* returned PENDING (on an existing index), one process_queue leaves
\* get_rate_limited_orders non-empty.
C6_BurstThenDrainRejects ==
    [][(/\ burst.open
        /\ Len(burst.statuses) >= rate_limit_orders
        /\ \A k \in 1..Len(burst.statuses) : burst.statuses[k] = "PENDING"
        /\ \A k \in 1..Len(order_queue) :
              heap[order_queue[k]].index_id \in DOMAIN indices
        /\ process_queue)
       => get_rate_limited_orders' # {}]_vars

\* C7: a buy with positive quantity that the rate limiter admits and whose
\* quantity x price is below min_order_value x (number of assets of the
\* index) returns REJECTED and is not queued.
C7_MinimumOrderSize ==
    [][\A p \in PositionIds, c \in BuyCalls :
          (/\ buy(p, c[1], c[2], c[3])
           /\ c[2] > 0
           /\ check_rate_limit.ok
           /\ c[1] \in DOMAIN indices
           /\ c[2] * c[3] < min_order_value * Len(indices[c[1]].assets))
          => /\ ret'.status = "REJECTED"
             /\ order_queue' = order_queue]_vars

\* C8: a buy with quantity <= 0 returns a REJECTED order, consumes no
\* admission slot and leaves the queue unchanged.
C8_NonPositiveQuantityRejected ==
    [][\A p \in PositionIds, c \in BuyCalls :
          (buy(p, c[1], c[2], c[3]) /\ c[2] <= 0)
          => /\ ret'.status = "REJECTED"
             /\ heap'[ret'.order].status = "REJECTED"
             /\ order_count_in_window' = order_count_in_window
             /\ last_execution_time' = last_execution_time
             /\ order_queue' = order_queue]_vars

\* A buy with quantity <= 0 was rejected while the limiter itself would
\* have admitted it (the window had room or had expired).
C8_Witness ==
    /\ ret.op = "buy"
    /\ ret.quantity <= 0
    /\ ret.status = "REJECTED"
    /\ order_count_in_window < rate_limit_orders

\* C9: a buy that names an unknown index returns REJECTED and queues
\* nothing.
C9_UnknownIndexRejected ==
    [][\A p \in PositionIds, c \in BuyCalls :
          (buy(p, c[1], c[2], c[3]) /\ c[2] > 0 /\ c[1] \notin DOMAIN indices)
          => /\ ret'.status = "REJECTED"
             /\ order_queue' = order_queue]_vars

\* C10: cancel of an unknown position_id or of a FILLED or CANCELLED order
\* fails with its message and changes nothing; a second cancel of the same
\* position_id fails and changes nothing.
C10_CancelFailsWithoutEffect ==
    [][\A p \in PositionIds :
          cancel(p) =>
            /\ p \notin DOMAIN orders
                  => /\ ~ret'.success
                     /\ ret'.message = "Order not found"
                     /\ UNCHANGED engine
            /\ (p \in DOMAIN orders
                /\ heap[orders[p]].status \in {"FILLED", "CANCELLED"})
                  => /\ ~ret'.success
                     /\ ret'.message = "Order already " \o heap[orders[p]].status
                     /\ UNCHANGED engine
            /\ (ret.op = "cancel" /\ ret.position_id = p)
                  => /\ ~ret'.success
                     /\ UNCHANGED engine]_vars

\* A second cancel of an order has been refused.
C10_Witness ==
    /\ ret.op = "cancel"
    /\ ~ret.success
    /\ ret.message = "Order already CANCELLED"

\* C11: a successful cancel sets the order's status to CANCELLED and returns
\* loss = |filled_quantity x (price - filled_price)| when the order was
\* PARTIALLY_FILLED and loss = 0 when it was PENDING; filled_quantity 80,
\* price 1000 and filled_price 1001 give the loss 80.
C11_CancelLoss ==
    [][/\ \A p \in PositionIds :
            (cancel(p) /\ ret'.success) =>
               LET order == heap[orders[p]]
               IN  /\ heap'[orders[p]].status = "CANCELLED"
                   /\ order.status = "PARTIALLY_FILLED" =>
                         /\ RLe(RZero, ret'.loss)
                         /\ \/ ret'.loss = RMul(order.filled_quantity,
                                         RSub(order.price, order.filled_price))
                            \/ ret'.loss = RMul(order.filled_quantity,
                                         RSub(order.filled_price, order.price))
                   /\ order.status = "PENDING" => ret'.loss = RZero
       /\ cancel_loss([status |-> "PARTIALLY_FILLED", filled_quantity |-> R(80),
                       price |-> R(1000), filled_price |-> R(1001)]) = R(80)]_vars

\* A partially filled order has been cancelled with a loss that is not zero.
C11_Witness ==
    /\ ret.op = "cancel"
    /\ ret.success
    /\ ret.loss # RZero
    /\ heap[ret.order].status = "CANCELLED"
    /\ heap[ret.order].filled_quantity # RZero

\* C12: every fill report has a fill_percentage within [0, 100], at least 99
\* for a FILLED order and below 99 for a PARTIALLY_FILLED one.
C12_FillPercentage ==
    \A p \in PositionIds :
       LET report == get_fill_report(p)
           status == heap[orders[p]].status
       IN  report.kind = "FillReport" =>
              /\ RLe(RZero, report.fill_percentage)
              /\ RLe(report.fill_percentage, R(100))
              /\ status = "FILLED" => RLe(R(99), report.fill_percentage)
              /\ status = "PARTIALLY_FILLED" => RLt(report.fill_percentage, R(99))

\* An order has been executed at 50 percent and is PARTIALLY_FILLED.
C12_Witness ==
    \E p \in DOMAIN orders :
       /\ heap[orders[p]].status = "PARTIALLY_FILLED"
       /\ get_fill_report(p).kind = "FillReport"
       /\ get_fill_report(p).fill_percentage = R(50)

\* The fraction the liquidity constraints info allow of an order of the
\* given quantity on the index: the least max_fillable / (quantity x
\* current_price x asset quantity) over the constrained assets, at most 1.
FillableFraction(index, info, quantity) ==
    LET limits == {RDiv(info[index.assets[k].symbol].max_fillable,
                        RMul(RMul(quantity, index.assets[k].current_price),
                             index.assets[k].quantity)) :
                     k \in {j \in DOMAIN index.assets :
                               index.assets[j].symbol \in DOMAIN info}}
        candidates == limits \cup {ROne}
    IN  CHOOSE f \in candidates : \A g \in candidates : RLe(f, g)

\* C13: the quantity filled by an execution is the order's quantity times
\* the least fraction over the constrained assets of its index, capped at
\* 1; assets without a constraint impose no limit and the fraction is 1
\* when the index has no constraints.
C13_FillableFraction ==
    [][process_queue =>
         \A k \in 1..Len(ret'.executed) :
            LET obj == ret'.executed[k]
                order == heap[obj]
                info == IF order.index_id \in DOMAIN liquidity_info
                        THEN liquidity_info[order.index_id] ELSE EmptyDict
                fraction == FillableFraction(indices[order.index_id], info,
                                             order.quantity)
            IN  /\ heap'[obj].filled_quantity = RMul(order.quantity, fraction)
                /\ (\A j \in DOMAIN indices[order.index_id].assets :
                       indices[order.index_id].assets[j].symbol \notin DOMAIN info)
                      => heap'[obj].filled_quantity = order.quantity]_vars

\* An order on an index with three constrained assets has been executed at
\* a fraction below 1 set by the last of them.
C13_Witness ==
    /\ ret.op = "process_queue"
    /\ ret.executed # <<>>
    /\ "X" \in DOMAIN liquidity_info
    /\ liquidity_info["X"] = ExampleLiquidity
    /\ indices["X"].assets = ExampleAssets
    /\ heap[ret.executed[1]].filled_quantity =
          RMul(heap[ret.executed[1]].quantity, <<1, 50>>)

\* C14: on the index A, B, C of quantities (1, 2, 5) and prices (10, 5, 2)
\* with the limits 2,000,000, 1,000,000 and 200,000, the execution of an
\* order of 1,000,000 units gives it a fill_percentage of 20.
C14_LiquidityGatingExample ==
    [][(/\ process_queue
        /\ ret'.executed # <<>>
        /\ heap[ret'.executed[1]].quantity = R(1000000)
        /\ indices["X"].assets = ExampleAssets
        /\ "X" \in DOMAIN liquidity_info
        /\ liquidity_info["X"] = ExampleLiquidity)
       => RMul(RDiv(heap'[ret'.executed[1]].filled_quantity,
                    heap'[ret'.executed[1]].quantity), R(100)) = R(20)]_vars

\* C15: for the order of 1,000,000 units at indexPrice 30 over A, B, C with
\* per-unit quantities (1, 2, 5) and the books A: 2,000,000 @ 10,
\* B: 1,000,000 @ 5, C: 200,000 @ 2, determine_fill_strategy returns the
\* fill_percentage 0.2.
C15_SolverExample ==
    (/\ solver.strategy.kind # "none"
     /\ solver.order = [quantity |-> R(1000000), indexPrice |-> R(30),
                        assets |-> ExampleSolverAssets]
     /\ solver.liquidity_data = ExampleBooks)
    => /\ solver.strategy.kind = "strategy"
       /\ solver.strategy.fill_percentage = <<1, 5>>

\* What the executions of the orders in executed that name index_id leave
\* unfilled: the sum of quantity x price - filled_quantity x filled_price
\* over the orders as they are in h.
RECURSIVE Unfilled(_, _, _)
Unfilled(executed, index_id, h) ==
    IF executed = <<>> THEN RZero
    ELSE LET order == h[Head(executed)]
             rest == Unfilled(Tail(executed), index_id, h)
         IN  IF order.index_id = index_id
             THEN RAdd(rest, RSub(RMul(order.quantity, order.price),
                                  RMul(order.filled_quantity, order.filled_price)))
             ELSE rest

\* C16: an execution sets filled_quantity = quantity x fillable fraction,
\* filled_price = price x 1.001 and loss = |filled_quantity x (price -
\* filled_price)|, and adds quantity x price - filled_quantity x
\* filled_price to the retainer of the order's index; no other order and
\* no other index's retainer changes.
C16_ExecutionEffect ==
    [][process_queue =>
         /\ \A k \in 1..Len(ret'.executed) :
               LET obj == ret'.executed[k]
                   order == heap[obj]
                   info == IF order.index_id \in DOMAIN liquidity_info
                           THEN liquidity_info[order.index_id] ELSE EmptyDict
                   fraction == FillableFraction(indices[order.index_id], info,
                                                order.quantity)
               IN  /\ heap'[obj].filled_quantity = RMul(order.quantity, fraction)
                   /\ heap'[obj].filled_price = RMul(order.price, <<1001, 1000>>)
                   /\ heap'[obj].loss =
                         RMul(heap'[obj].filled_quantity,
                              RSub(heap'[obj].filled_price, order.price))
                   /\ heap'[obj].quantity = order.quantity
                   /\ heap'[obj].price = order.price
         /\ \A obj \in DOMAIN heap :
               ~InQueue(obj, ret'.executed) => heap'[obj] = heap[obj]
         /\ DOMAIN retainer' = DOMAIN retainer
         /\ \A i \in DOMAIN retainer :
               retainer'[i] = RAdd(retainer[i], Unfilled(ret'.executed, i, heap'))]_vars

\* With both indices created, an order has been executed in part: the
\* retainer of its index holds what was left unfilled and the retainer of
\* the other index is still zero.
C16_Witness ==
    /\ ret.op = "process_queue"
    /\ ret.executed # <<>>
    /\ DOMAIN retainer = {"X", "Y"}
    /\ heap[ret.executed[1]].status = "PARTIALLY_FILLED"
    /\ \E i \in DOMAIN retainer :
          /\ i = heap[ret.executed[1]].index_id
          /\ retainer[i] = Unfilled(ret.executed, i, heap)
          /\ retainer[i] # RZero
          /\ \A j \in DOMAIN retainer \ {i} : retainer[j] = RZero

\* C17: under buy, cancel, process_queue and every other call but
\* create_index the retainer of an index never decreases and is never set
\* back to zero.
C17_RetainerMonotonic ==
    [][~(\E c \in Creations : create_index(c[1], c[2])) =>
         \A i \in DOMAIN retainer :
            /\ RLe(retainer[i], retainer'[i])
            /\ retainer[i] # RZero => retainer'[i] # RZero]_vars

\* The sum of the weights new_weights gives to the assets.
AssetWeights(assets, new_weights) ==
    LET sum[k \in 0..Len(assets)] ==
            IF k = 0 THEN RZero
            ELSE RAdd(sum[k - 1], new_weights[assets[k].symbol])
    IN  sum[Len(assets)]

\* new_weights redistributes the index: it gives a weight to every asset of
\* the index and these weights sum to 1.
Redistributes(index, new_weights) ==
    /\ \A k \in DOMAIN index.assets : index.assets[k].symbol \in DOMAIN new_weights
    /\ AssetWeights(index.assets, new_weights) = ROne

\* The step is a call of rebalance that returned: ret' holds its arguments
\* (every call but rebalance writes another name to ret, and Tick, which
\* leaves ret alone, moves the clock).
RebalanceReturned ==
    /\ ret'.op = "rebalance"
    /\ now' = now
    /\ ret'.raised = ""

\* C18: a rebalance whose weights cover every asset of the index and sum to
\* 1 leaves the NAV of the index as it was.
C18_RebalancePreservesNav ==
    [][(/\ RebalanceReturned
        /\ Redistributes(indices[ret'.index_id], ret'.new_weights))
       => calculate_nav(indices'[ret'.index_id])
             = calculate_nav(indices[ret'.index_id])]_vars

\* After a change of price, "X" has been rebalanced to a quarter in A and
\* three quarters in B.
C18_Witness ==
    /\ ret.op = "rebalance"
    /\ ret.raised = ""
    /\ ret.index_id = "X"
    /\ ret.new_weights = ("A" :> <<1, 4>> @@ "B" :> <<3, 4>>)
    /\ indices["X"].assets[1].current_price = R(20)
    /\ calculate_nav(indices["X"]) = R(30)
    /\ indices["X"].assets[1].quantity = <<3, 8>>

\* The cost of moving the assets named in new_weights to their target
\* values at the NAV of the index: the sum of |NAV x weight - current value|
\* x 0.001 over them.
CostOverNamed(index, new_weights) ==
    LET nav == calculate_nav(index)
        cost(asset) ==
            IF asset.symbol \in DOMAIN new_weights
            THEN RMul(RAbs(RSub(RMul(nav, new_weights[asset.symbol]),
                                RMul(asset.quantity, asset.current_price))),
                      <<1, 1000>>)
            ELSE RZero
        sum[k \in 0..Len(index.assets)] ==
            IF k = 0 THEN RZero ELSE RAdd(sum[k - 1], cost(index.assets[k]))
    IN  sum[Len(index.assets)]

\* C19: the total_cost of a rebalance is the sum of |NAV x new_weight -
\* current value| x fee rate over the symbols of new_weights, at the NAV
\* before the rebalance; an asset absent from new_weights adds nothing.
C19_RebalanceCost ==
    [][RebalanceReturned
       => ret'.total_cost =
             CostOverNamed(indices[ret'.index_id], ret'.new_weights)]_vars

\* C20: rebalance changes only the quantity and price_last_rebalance of
\* the assets named in new_weights and the last_rebalance_time of the
\* index; assets absent from new_weights, the other indices, the ledger,
\* the queue, the limiter and the retainer are unchanged.
C20_RebalanceFrame ==
    [][(ret'.op = "rebalance" /\ now' = now) =>
         LET i == ret'.index_id
             w == ret'.new_weights
         IN /\ UNCHANGED <<liquidity_info, retainer, heap, orders,
                           order_queue, last_execution_time,
                           order_count_in_window>>
            /\ DOMAIN indices' = DOMAIN indices
            /\ \A j \in DOMAIN indices \ {i} : indices'[j] = indices[j]
            /\ i \in DOMAIN indices =>
                  /\ indices'[i].id = indices[i].id
                  /\ Len(indices'[i].assets) = Len(indices[i].assets)
                  /\ \A k \in DOMAIN indices[i].assets :
                        LET old == indices[i].assets[k]
                            new == indices'[i].assets[k]
                        IN  /\ new.symbol = old.symbol
                            /\ new.current_price = old.current_price
                            /\ old.symbol \notin DOMAIN w => new = old]_vars

\* With "Y" in the ledger, "X" has been rebalanced with weights that name
\* A only: A's quantity has changed, B is as it was created.
C20_Witness ==
    /\ ret.op = "rebalance"
    /\ ret.raised = ""
    /\ ret.index_id = "X"
    /\ ret.new_weights = ("A" :> <<1, 2>>)
    /\ "Y" \in DOMAIN indices
    /\ indices["X"].assets[1].quantity # R(1)
    /\ indices["X"].assets[2] = Asset("B", 2, 5, 5)

\* The step is a call of op: ret' holds its arguments and result (every call
\* writes its name to ret, and Tick, which leaves ret alone, moves the
\* clock).
Called(op) == ret'.op = op /\ now' = now

\* C21: rebalance and update_prices on an unknown index_id fail with the
\* error "Index not found" and change no index, order, queue entry,
\* retainer or limiter field.
C21_UnknownIndexFails ==
    [][((Called("rebalance") \/ Called("update_prices"))
        /\ ret'.index_id \notin DOMAIN indices)
       => /\ ret'.raised = "ValueError"
          /\ ret'.message = "Index not found"
          /\ UNCHANGED engine]_vars

\* With "X" in the ledger, an update of the prices of the unknown "Y" has
\* failed.
C21_Witness ==
    /\ ret.op = "update_prices"
    /\ ret.index_id = "Y"
    /\ ret.raised = "ValueError"
    /\ DOMAIN indices = {"X"}

\* C22: get_fill_report returns a report for every position_id of the
\* ledger, also for an order rejected for its quantity of 0, and None for
\* an unknown position_id; it never fails with a division by zero.
C22_FillReportTotal ==
    \A p \in PositionIds :
       get_fill_report(p).kind = IF p \in DOMAIN orders THEN "FillReport" ELSE "None"

\* C23: every REJECTED order is in the ledger under its position_id and in
\* the result of get_rate_limited_orders, which holds REJECTED orders only.
C23_RejectedOrdersListed ==
    /\ \A obj \in DOMAIN heap :
          heap[obj].status = "REJECTED" =>
             /\ heap[obj].position_id \in DOMAIN orders
             /\ orders[heap[obj].position_id] = obj
             /\ obj \in get_rate_limited_orders
    /\ \A obj \in get_rate_limited_orders : heap[obj].status = "REJECTED"

\* C24: a buy whose position_id is already in the ledger leaves the record
\* held under that position_id as it is, and every queued order is the
\* order the ledger holds under its position_id.
C24_PositionIdUnique ==
    [][(Called("buy") /\ ret'.position_id \in DOMAIN orders)
       => /\ orders'[ret'.position_id] = orders[ret'.position_id]
          /\ heap'[orders[ret'.position_id]] = heap[orders[ret'.position_id]]
          /\ \A k \in 1..Len(order_queue') :
                orders'[heap'[order_queue'[k]].position_id] = order_queue'[k]]_vars

\* The order has been executed: an execution sets filled_price to the
\* order's price x 1.001, and the prices of orders are positive.
Executed(obj) == heap[obj].filled_price # RZero

\* C25: an order that process_queue has executed is never in the queue
\* again, no later call of process_queue executes it, and its
\* filled_quantity, filled_price and loss never change.
C25_ExecutedAtMostOnce ==
    [][\A obj \in DOMAIN heap :
          Executed(obj) =>
             /\ ~InQueue(obj, order_queue)
             /\ ~InQueue(obj, order_queue')
             /\ heap'[obj].filled_quantity = heap[obj].filled_quantity
             /\ heap'[obj].filled_price = heap[obj].filled_price
             /\ heap'[obj].loss = heap[obj].loss
             /\ Called("process_queue") =>
                   /\ ~InQueue(obj, ret'.executed)
                   /\ \A i \in DOMAIN retainer :
                         retainer'[i] =
                            RAdd(retainer[i], Unfilled(ret'.executed, i, heap'))]_vars

\* process_queue has been called again after it executed an order: the
\* order is not among those the call executed.
C25_Witness ==
    /\ ret.op = "process_queue"
    /\ \E obj \in DOMAIN heap :
          /\ Executed(obj)
          /\ heap[obj].status \in {"FILLED", "PARTIALLY_FILLED"}
          /\ ~InQueue(obj, ret.executed)

\* The priority classes in the order they are served at one timestamp.
PriorityOrder == <<"REBALANCE", "CANCEL", "MARKET", "LIMIT">>

PriorityRank(order) ==
    CHOOSE r \in 1..Len(PriorityOrder) :
        PriorityOrder[r] = determine_priority(order)

\* Order a is due before order b: earlier timestamp, or the same timestamp
\* and an earlier priority class.
DueBefore(a, b) ==
    \/ a.timestamp < b.timestamp
    \/ a.timestamp = b.timestamp /\ PriorityRank(a) < PriorityRank(b)

\* C26: execute_batch hands out the queued items in ascending timestamp
\* order and, at one timestamp, in the order REBALANCE, CANCEL, MARKET,
\* LIMIT: no order of a batch is due before one handed out earlier in the
\* batch, and no order left in the queue is due before one handed out.
C26_BatchOrder ==
    [][Called("execute_batch")
       => /\ \A i, j \in 1..Len(ret'.executed) :
                i < j => ~DueBefore(ret'.executed[j], ret'.executed[i])
          /\ \A i \in 1..Len(ret'.executed) :
             \A k \in 1..Len(queue_manager'.order_queue) :
                ~DueBefore(queue_manager'.order_queue[k].order,
                           ret'.executed[i])]_vars

\* Admissions i..j of the record lie in a span shorter than one window and
\* are more than the capacity of a window.
Burst(i, j) ==
    /\ i < j
    /\ admitted.list[j].at - admitted.list[i].at < limiter_window
    /\ j - i + 1 > rate_limit_orders

\* C27: the limiter is a fixed-window limiter: more than capacity orders
\* are admitted within a span shorter than one window only across a reset
\* of the window, and then no more than twice the capacity.
C27_BurstOnlyAcrossReset ==
    \A i, j \in 1..Len(admitted.list) :
        Burst(i, j) => /\ \E k \in (i + 1)..j : admitted.list[k].reset
                       /\ j - i + 1 <= 2 * rate_limit_orders

\* More than capacity orders admitted in less than a window, the last one
\* in the window that the reset opened.
C27_Witness ==
    /\ admitted.on
    /\ \E i, j \in 1..Len(admitted.list) :
          /\ Burst(i, j)
          /\ admitted.list[j].reset
          /\ admitted.list[i].at < admitted.list[j].at

\* The orders buy admitted: the objects that are not REJECTED.
Admitted == { obj \in DOMAIN heap : heap[obj].status # "REJECTED" }

\* C28: concurrent calls of buy appear atomic: once both calls have
\* returned, and while the first window is still the open one, no more
\* than rate_limit_orders orders are admitted and order_count_in_window is
\* the number of admissions.
C28_AtomicBuys ==
    ((\A t \in Threads : threads[t].pc = "idle") /\ last_execution_time = 0)
       => /\ Cardinality(Admitted) <= rate_limit_orders
          /\ order_count_in_window = Cardinality(Admitted)

\* The sum of quantity x current_price over assets.
RECURSIVE ValueOf(_)
ValueOf(assets) ==
    IF assets = <<>> THEN RZero
    ELSE RAdd(RMul(Head(assets).quantity, Head(assets).current_price),
              ValueOf(Tail(assets)))

\* C29: after update_prices(index, prices) every asset of the index listed
\* in prices has the supplied current_price, the other assets and all
\* quantities are as they were, and calculate_nav is the sum of quantity x
\* current_price over the assets at the new prices.
C29_PricesVisible ==
    [][(Called("update_prices") /\ ret'.index_id \in DOMAIN indices)
       => LET old == indices[ret'.index_id].assets
              new == indices'[ret'.index_id].assets
          IN  /\ Len(new) = Len(old)
              /\ \A k \in DOMAIN old :
                    IF old[k].symbol \in DOMAIN ret'.prices
                    THEN new[k] = [old[k] EXCEPT !.current_price =
                                       ret'.prices[old[k].symbol]]
                    ELSE new[k] = old[k]
              /\ calculate_nav(indices'[ret'.index_id]) = ValueOf(new)]_vars

\* "X", created with A at 10 and two B at 5, after update_prices to A = 20:
\* A is at 20, B is as created and the NAV is 1 x 20 + 2 x 5.
C29_Witness ==
    /\ ret.op = "update_prices"
    /\ ret.index_id = "X"
    /\ ret.prices = ("A" :> R(20))
    /\ "X" \in DOMAIN indices
    /\ indices["X"].assets[1] = Asset("A", 1, 10, 20)
    /\ indices["X"].assets[2] = Asset("B", 2, 5, 5)
    /\ calculate_nav(indices["X"]) = R(30)

\* C30: in every index of the simulator the symbols of the assets are
\* pairwise distinct.
C30_SymbolsDistinct ==
    \A i \in DOMAIN indices :
    \A j, k \in DOMAIN indices[i].assets :
        j # k => indices[i].assets[j].symbol # indices[i].assets[k].symbol

\* C31: a PENDING order in the queue that is never cancelled is eventually
\* executed, when process_queue is called again and again and the windows
\* keep expiring.
C31_NoStarvation ==
    \A obj \in 1..MaxOrders :
        (obj \in DOMAIN heap /\ InQueue(obj, order_queue)
           /\ heap[obj].status = "PENDING")
        ~> (obj \in DOMAIN heap
              /\ heap[obj].status \in {"FILLED", "PARTIALLY_FILLED", "CANCELLED"})

\* What the step spends of the window: one for a buy that is admitted, one
\* for every order a process_queue executes.
Spent ==
    (IF Called("buy") /\ ret'.status = "PENDING" THEN 1 ELSE 0)
    + (IF Called("process_queue") THEN Len(ret'.executed) ELSE 0)

\* C32: submission and execution share the budget of a window:
\* order_count_in_window is 0 when a window starts, grows by each admitted
\* buy and each executed order, and is never below 0 or above
\* rate_limit_orders.
C32_SharedBudget ==
    [][/\ order_count_in_window' =
             (IF last_execution_time' # last_execution_time
              THEN 0 ELSE order_count_in_window) + Spent
       /\ 0 <= order_count_in_window'
       /\ order_count_in_window' <= rate_limit_orders]_vars

\* A drain has executed an order in a window it opened and has used up the
\* budget of that window.
C32_Witness ==
    /\ ret.op = "process_queue"
    /\ Len(ret.executed) >= 1
    /\ order_count_in_window = rate_limit_orders
    /\ last_execution_time = now
    /\ now > 0

\* How often obj occurs in the list s.
Occurrences(obj, s) == Cardinality({k \in 1..Len(s) : s[k] = obj})

\* C33: process_queue neither loses nor duplicates an order: whether it
\* returns or raises, every order that was in the queue is afterwards among
\* the executed orders once or in the queue once, and not both.
C33_QueueConserved ==
    [][Called("process_queue")
       => \A obj \in DOMAIN heap :
             InQueue(obj, order_queue)
             => Occurrences(obj, ret'.executed)
                  + Occurrences(obj, order_queue') = 1]_vars

\* C34: every order in order_queue has the status PENDING.
C34_QueueHoldsPending ==
    \A k \in 1..Len(order_queue) : heap[order_queue[k]].status = "PENDING"

\* The orders in the order in which heappop hands them out of the list h.
RECURSIVE PopOrder(_)
PopOrder(h) ==
    IF h = <<>> THEN <<>>
    ELSE <<heappop(h).item.order>> \o PopOrder(heappop(h).heap)

\* No order of the list s is due before one that precedes it.
InDueOrder(s) ==
    \A i, j \in 1..Len(s) : i < j => ~DueBefore(s[j], s[i])

Items(h) == {h[k] : k \in 1..Len(h)}

\* C35: cleanup_old_orders(max_age) removes exactly the items older than
\* max_age, and the items it leaves are still handed out in ascending
\* (timestamp, priority) order.
C35_CleanupKeepsOrder ==
    [][Called("cleanup_old_orders")
       => /\ Items(queue_manager'.order_queue)
               = {item \in Items(queue_manager.order_queue) :
                     now - item.timestamp <= ret'.quantity}
          /\ Len(queue_manager'.order_queue)
               = Cardinality(Items(queue_manager'.order_queue))
          /\ InDueOrder(PopOrder(queue_manager'.order_queue))]_vars

\* Orders a and b have the same timestamp and the same priority.
Tied(a, b) ==
    a.timestamp = b.timestamp /\ determine_priority(a) = determine_priority(b)

\* C36: orders of equal timestamp and equal priority are handed out in the
\* order in which add_to_queue inserted them (positionId numbers the
\* insertions): in a batch the earlier insertion comes first, and no order
\* left in the queue was inserted before a tied order of the batch.
C36_TiesInInsertionOrder ==
    [][Called("execute_batch")
       => /\ \A i, j \in 1..Len(ret'.executed) :
                (i < j /\ Tied(ret'.executed[i], ret'.executed[j]))
                => ret'.executed[i].positionId < ret'.executed[j].positionId
          /\ \A i \in 1..Len(ret'.executed) :
             \A k \in 1..Len(queue_manager'.order_queue) :
                Tied(ret'.executed[i], queue_manager'.order_queue[k].order)
                => ret'.executed[i].positionId
                      < queue_manager'.order_queue[k].order.positionId]_vars

\* C37: execute_batch returns at most max_batch_size orders; a call made
\* less than batch_window after the last non-empty batch (or after the
\* construction) returns nothing and leaves the queue as it is; a
\* non-empty batch sets last_batch_time to the time of the call and nothing
\* else moves last_batch_time, so two non-empty batches are at least
\* batch_window apart.
C37_BatchLimit ==
    [][LET last == queue_manager.batch_manager.last_batch_time
           batch == ret'.executed
       IN  IF Called("execute_batch")
           THEN /\ Len(batch) <= max_batch_size
                /\ now - last < batch_window
                      => /\ batch = <<>>
                         /\ queue_manager' = queue_manager
                /\ queue_manager'.batch_manager.last_batch_time
                      = IF batch # <<>> THEN now ELSE last
                /\ Len(queue_manager'.order_queue) + Len(batch)
                      = Len(queue_manager.order_queue)
           ELSE queue_manager'.batch_manager.last_batch_time = last]_vars

\* A full batch has been handed out and an order is left for the next one.
C37_Witness ==
    /\ ret.op = "execute_batch"
    /\ Len(ret.executed) = max_batch_size
    /\ queue_manager.order_queue # <<>>
    /\ queue_manager.batch_manager.last_batch_time = now

\* C38: after any sequence of add_order and cancel_order calls, add_order
\* with a positionId already present included, get_orders(i) raises nothing
\* and returns exactly the stored orders whose indexId is i, each once; an
\* order that has been cancelled is not stored, so no get_orders returns it.
C38_BookConsistent ==
    \A i \in BookIndexIds :
        LET res == get_orders(i)
            stored == {p \in DOMAIN order_book.orders :
                           order_book.orders[p].indexId = i}
        IN  /\ res.raised = ""
            /\ \A k \in 1..Len(res.orders) :
                   res.orders[k].positionId \in stored
            /\ \A p \in stored :
                   Cardinality({k \in 1..Len(res.orders) :
                                    res.orders[k] = order_book.orders[p]}) = 1

\* C39: execute_rebalance sets last_rebalance of the index to the time of the
\* call exactly when it returns 'executed', and nothing else moves it; a call
\* made for an index less than rebalance_interval after that time returns
\* 'skipped' with no trades and leaves last_rebalance as it is.
C39_OncePerInterval ==
    [][LET last == rebalance_manager.last_rebalance
           i == ret'.index_id
       IN  IF Called("execute_rebalance")
           THEN /\ ret'.status = "executed"
                      => rebalance_manager'.last_rebalance = Put(last, i, now)
                /\ ret'.status # "executed"
                      => rebalance_manager' = rebalance_manager
                /\ (i \in DOMAIN last /\ now - last[i] < rebalance_interval)
                      => /\ ret'.status = "skipped"
                         /\ ret'.executed = <<>>
                         /\ ret'.total_cost = RZero
                         /\ rebalance_manager' = rebalance_manager
           ELSE rebalance_manager' = rebalance_manager]_vars

\* A call for an index is skipped some time after the rebalance of that
\* index, at a time at which another index has been rebalanced.
C39_Witness ==
    /\ ret.op = "execute_rebalance"
    /\ ret.status = "skipped"
    /\ ret.index_id \in DOMAIN rebalance_manager.last_rebalance
    /\ now > rebalance_manager.last_rebalance[ret.index_id]
    /\ \E j \in DOMAIN rebalance_manager.last_rebalance :
           rebalance_manager.last_rebalance[j] = now

\* C40: a rebalance that fails on a known index (the NAV is 0, or an asset
\* named in new_weights has a current_price of 0) has changed no asset
\* quantity, no price_last_rebalance and not the last_rebalance_time of the
\* index.
C40_RebalanceAllOrNothing ==
    [][(/\ Called("rebalance")
        /\ ret'.raised # ""
        /\ ret'.index_id \in DOMAIN indices)
          => LET before == indices[ret'.index_id]
                 after == indices'[ret'.index_id]
             IN  /\ after.last_rebalance_time = before.last_rebalance_time
                 /\ \A k \in DOMAIN before.assets :
                       /\ after.assets[k].quantity = before.assets[k].quantity
                       /\ after.assets[k].price_last_rebalance
                             = before.assets[k].price_last_rebalance]_vars

============================================================================
